---- MODULE Spec2Model ----
(***************************************************************************)
(* A model of the leader-liveness control loop of the distributed counter  *)
(* node (src/counter.py, class DistributedCounter): the monitoring task,   *)
(* the heartbeat task and the increment request handler of one node,       *)
(* together with the ledger it polls and writes to.                        *)
(*                                                                         *)
(* Scheduling.  The node is a single asyncio process.  Every web3 call in  *)
(* counter.py is a synchronous call, and the only asynchronous call of a   *)
(* monitoring tick (the HTTP GET of ping_leader) is never reached (see     *)
(* ClientTimeoutIsAsyncContextManager), so a tick, a heartbeat iteration   *)
(* and a request handler each run without suspension: the tasks interleave *)
(* only at their asyncio.sleep calls.  Each is one action here.            *)
(*                                                                         *)
(* Specifications.  Spec and FairSpec: the node's tasks and POST          *)
(* /increment.  ApiSpec: the same with the read-only endpoints.            *)
(* ProofSpec: an identity proof from its generation to its verification    *)
(* (src/dstack_cluster.py, src/debug_signature_verification.py,            *)
(* src/scripts/test_contract_signature_verification.py); the generator of  *)
(* signature_proof.py and the verifier follow their description in         *)
(* spec.md 4.1 and 4.2.  SdkSpec: calls of DStackP2PSDK.register().       *)
(* BootSpec: the node from the call of its constructor on.  FastapiSpec:   *)
(* the FastAPI server (src/fastapi_server.py) and its minting calls.       *)
(* PeerMonitorSpec: the polling loop of DStackP2PSDK.monitor_peers.        *)
(* ClusterSpec: the node together with a second node on the same ledger.   *)
(* RegisterInstanceSpec: calls of DistributedCounter.register_instance.    *)
(* WaitSpec and WaitFairSpec: the loops that wait for the dstack agent or  *)
(* for a simulator socket.                                                 *)
(***************************************************************************)
EXTENDS Integers, Sequences, FiniteSets, TLC

\* ------------------------------------------------------------------ bounds
\* The ledger accepts at most this many transactions in a run; once reached,
\* every further submission fails (a failure is always a possible outcome).
MaxLedgerTxs == 2
\* Largest value time.time() returns (a wall clock: each reading is an input).
MaxTime == 2
\* Largest number of accepted increments.
MaxOps == 2
\* Calls of mint_nft_if_needed in one run of the FastAPI server.
MaxMintCalls == 2
\* Iterations of the polling loop of monitor_peers.
MaxPolls == 3
\* Calls of register_instance on one node.
MaxRegisterCalls == 3

\* ------------------------------------------------------- program constants
\* asyncio.sleep(10) of monitor_leader_health
MonitorPeriod == 10
\* asyncio.sleep(5) of the except branches
ErrorBackoff == 5
\* number of inputs of submitCounterAttestation in contract_abi
AttestationAbiInputs == 7
\* number of arguments submit_counter_attestation passes to it
AttestationArgsPassed == 4

\* self.host_address: the address this node transacts from
HostAddress == "0xA1"
\* the other members of the cluster
PeerAddresses == {"0xB2", "0xC3"}
\* '0x0000000000000000000000000000000000000000'
ZeroAddress == "0x00"
\* every value currentLeader() can return
LedgerAddresses == {HostAddress, ZeroAddress} \cup PeerAddresses

\* the URL ping_leader requests, whatever leader it is given
LeaderUrl == "http://localhost:8080/health"

\* what a /health endpoint can do with a GET within the timeout
HealthOutcomes == {"200", "503", "timeout", "connection_error"}
\* the values time.time() returns
Timestamps == 1..MaxTime
\* outcome of a synchronous ledger call
CallOutcomes == {"ok", "fail"}

\* `async with aiohttp.ClientTimeout(total=timeout)`: ClientTimeout is a
\* plain attrs/dataclass value without __aenter__/__aexit__, so entering
\* the block raises (AttributeError or TypeError, by Python version), which
\* ping_leader's `except Exception` turns into False.
ClientTimeoutIsAsyncContextManager == FALSE

VARIABLES
    counter_value,          \* self.counter_value
    operation_log,          \* self.operation_log
    is_leader,              \* self.is_leader
    last_leader_heartbeat,  \* self.last_leader_heartbeat
    phase,                  \* "unconstructed", "failed" (__init__ raised), "constructed",
                            \* "running" (start() ran), "stopped" (cleanup() ran)
    monPc,                  \* leader_monitor_task: "none", "ready", "sleeping", "crashed", "cancelled"
    monSleep,               \* seconds of the sleep the monitor task is in (0: not sleeping)
    hbPc,                   \* heartbeat_task: "none", "ready", "sleeping", "crashed", "cancelled"
    tick,                   \* what the latest monitoring tick did
    ledgerLeader,           \* the ledger's currentLeader
    ledgerTxs,              \* transactions the ledger received from this node, in order
    response,               \* the latest HTTP response of a request handler
    pv,                     \* an identity proof on its way from generation to verification
    sdk,                    \* the DStackP2PSDK object and its latest register() call
    boot,                   \* the arguments and environment of DistributedCounter(...)
    mint,                   \* the FastAPI server and its calls of mint_nft_if_needed
    peerMon,                \* a monitor_peers task, the ledger's peer list and the callbacks made
    peer,                   \* a second DistributedCounter node of the cluster
    reg,                    \* calls of DistributedCounter.register_instance and what the ledger holds
    wait                    \* a readiness wait loop for the dstack agent

vars == <<counter_value, operation_log, is_leader, last_leader_heartbeat, phase,
          monPc, monSleep, hbPc, tick, ledgerLeader, ledgerTxs, response, pv, sdk, boot, mint,
          peerMon, peer, reg, wait>>

nodeVars == <<counter_value, operation_log, is_leader, last_leader_heartbeat>>
taskVars == <<monPc, monSleep, hbPc>>
\* state outside the DistributedCounter object
otherVars == <<boot, mint, peerMon, peer, reg, wait>>
offNodeVars == <<pv, sdk, otherVars>>

\* ----------------------------------------------------------------- helpers
NoTick ==
    [ran |-> FALSE, queryOk |-> FALSE, leader |-> "none", leaderHealthy |-> FALSE,
     probes |-> 0, httpGets |-> 0, probe |-> "none",
     attempts |-> <<>>, sent |-> <<>>, errors |-> {}, raised |-> FALSE]

NoResponse ==
    [op |-> "none", status |-> 0, new_value |-> 0, operation_id |-> 0,
     is_leader |-> FALSE, current_leader |-> "none"]

CastVote(target, isNoConfidence) ==
    [fn |-> "castVote", target |-> target, noConfidence |-> isNoConfidence]

\* ---------------------------------------------------------- check_leader_status
\* A variant that sets the flag and never clears it.
LeaderFlagNeverCleared(current_leader) ==
    is_leader \/ current_leader = HostAddress

\* A variant that makes the node Leader whenever the ledger names a leader.
LeaderFlagOfAnyLeader(current_leader) == current_leader # ZeroAddress

\* Lines 339-348: the value of is_leader after a successful currentLeader().
LeaderFlagAfter(current_leader) == current_leader = HostAddress

\* A variant without the `else` of line 344: this node probes itself.
ShouldProbeSelfToo(current_leader) == current_leader # ZeroAddress

\* A variant without the zero-address test of line 351.
ShouldProbeZeroToo(current_leader) == current_leader # HostAddress

\* Lines 344 and 351: the leader is probed when it is neither this node nor
\* the zero address.
ShouldProbe(current_leader) ==
    /\ current_leader # HostAddress
    /\ current_leader # ZeroAddress

\* ping_leader(leader_address): getActiveInstances(), then the GET of
\* LeaderUrl under the timeout block.  `ai` is the outcome of the ledger
\* query, `local` what LeaderUrl answers.  Every exception yields False.
PingLeader(leader_address, ai, local) ==
    IF ai = "fail"
    THEN [responsive |-> FALSE, httpGets |-> 0, errors |-> {"getActiveInstances"}]
    ELSE IF ~ClientTimeoutIsAsyncContextManager
    THEN [responsive |-> FALSE, httpGets |-> 0, errors |-> {"probe"}]
    ELSE [responsive |-> (local = "200"), httpGets |-> 1,
          errors |-> IF local \in {"timeout", "connection_error"} THEN {"probe"} ELSE {}]

\* A variant that passes False to castVote.
VoteNoConfidenceWrongFlag(target_leader, vo) ==
    [attempts |-> <<CastVote(target_leader, FALSE)>>,
     sent |-> IF vo = "ok" THEN <<CastVote(target_leader, FALSE)>> ELSE <<>>,
     errors |-> IF vo = "ok" THEN {} ELSE {"vote"}]

\* A variant that submits a second time when the first submission failed.
VoteNoConfidenceRetry(target_leader, vo) ==
    [attempts |-> IF vo = "ok" THEN <<CastVote(target_leader, TRUE)>>
                  ELSE <<CastVote(target_leader, TRUE), CastVote(target_leader, TRUE)>>,
     sent |-> IF vo = "ok" THEN <<CastVote(target_leader, TRUE)>> ELSE <<>>,
     errors |-> IF vo = "ok" THEN {} ELSE {"vote"}]

\* vote_no_confidence(target_leader): one castVote(target, True); `vo` is the
\* outcome of building, signing and sending it.  The exception is logged.
VoteNoConfidence(target_leader, vo) ==
    [attempts |-> <<CastVote(target_leader, TRUE)>>,
     sent |-> IF vo = "ok" THEN <<CastVote(target_leader, TRUE)>> ELSE <<>>,
     errors |-> IF vo = "ok" THEN {} ELSE {"vote"}]

\* vote_confidence(target_leader): one castVote(target, False).
VoteConfidence(target_leader, vo) ==
    [attempts |-> <<CastVote(target_leader, FALSE)>>,
     sent |-> IF vo = "ok" THEN <<CastVote(target_leader, FALSE)>> ELSE <<>>,
     errors |-> IF vo = "ok" THEN {} ELSE {"vote"}]

\* Lines 352-358: the vote that follows the probe's answer.
VoteAfterProbe(is_responsive, current_leader, vo) ==
    IF ~is_responsive
    THEN VoteNoConfidence(current_leader, vo)
    ELSE VoteConfidence(current_leader, vo)

\* check_leader_status(): the record of one tick and the new is_leader.
\* `q` is the outcome of currentLeader(), `health` what the claimed leader's
\* own /health endpoint would answer (the code never asks it).
CheckLeaderStatus(q, ai, local, health, vo) ==
    IF q = "fail"
    THEN [is_leader |-> is_leader,
          tick |-> [NoTick EXCEPT !.ran = TRUE, !.errors = {"currentLeader"}]]
    ELSE LET current_leader == ledgerLeader
             base == [NoTick EXCEPT !.ran = TRUE, !.queryOk = TRUE,
                                    !.leader = current_leader]
         IN  IF ~ShouldProbe(current_leader)
             THEN [is_leader |-> LeaderFlagAfter(current_leader), tick |-> base]
             ELSE LET ping == PingLeader(current_leader, ai, local)
                      vote == VoteAfterProbe(ping.responsive, current_leader, vo)
                  IN  [is_leader |-> LeaderFlagAfter(current_leader),
                       tick |-> [base EXCEPT
                                   !.leaderHealthy = (health = "200"),
                                   !.probes = 1,
                                   !.httpGets = ping.httpGets,
                                   !.probe = IF ping.responsive THEN "responsive"
                                             ELSE "unresponsive",
                                   !.attempts = vote.attempts,
                                   !.sent = vote.sent,
                                   !.errors = ping.errors \cup vote.errors]]

\* A variant of the loop without its `try`: a tick that met a failure ends
\* the task.
MonitorIterationUnprotected(t) ==
    IF t.raised \/ t.errors # {}
    THEN [pc |-> "crashed", sleep |-> 0]
    ELSE [pc |-> "sleeping", sleep |-> MonitorPeriod]

\* Lines 323-329, after check_leader_status() returned or raised: sleep(10),
\* or sleep(5) in the except branch; the loop goes on either way.
MonitorIteration(t) ==
    IF t.raised
    THEN [pc |-> "sleeping", sleep |-> ErrorBackoff]
    ELSE [pc |-> "sleeping", sleep |-> MonitorPeriod]

\* The outcomes a submission can have: the ledger takes no transaction
\* beyond MaxLedgerTxs.
SendOutcomes == IF Len(ledgerTxs) < MaxLedgerTxs THEN CallOutcomes ELSE {"fail"}

\* The inputs of the probe and of the vote are drawn only in a tick that
\* reaches them; otherwise one value stands for all.
ProbeInputs(q, S) ==
    IF q = "ok" /\ ShouldProbe(ledgerLeader) THEN S ELSE {CHOOSE x \in S : TRUE}

\* What LeaderUrl answers is drawn only in a tick that sends the GET.
HttpInputs(q, ai) ==
    IF ai = "ok" /\ ClientTimeoutIsAsyncContextManager
    THEN ProbeInputs(q, HealthOutcomes)
    ELSE {"timeout"}

\* ========================================================= identity proofs
\* Key pairs are named by the role they play.  Hashing is collision-free and
\* a signature can be produced only by the holder of its key, so a hash is
\* represented by what was hashed and a signature by who signed what.
Key(role, path, purpose) == [role |-> role, path |-> path, purpose |-> purpose]

\* the enclave application's key, shared by the instances of the application
AppKey == Key("app", "", "")
\* the key-management root that countersigns application keys
KmsRootKey == Key("kms_root", "", "")
\* the root of another key-management deployment
DeployedKmsKey == Key("deployed_kms", "", "")
\* what recovery yields from a signature over another hash, or from altered
\* signature bytes: a key that no party holds
JunkKey == Key("junk", "", "")
\* the key the key service derives for a path and a purpose
DerivedKey(path, purpose) == Key("derived", path, purpose)

KeyPaths == {"wallet/ethereum", "test/path"}
Purposes == {"ethereum", "tls"}
\* the path and purpose that register() and the scripts pass and recompute with
RegisterKeyPath == "wallet/ethereum"
RegisterPurpose == "ethereum"

\* to_compressed_bytes(): the SEC1 compressed encoding of a public key
Sec1(k) == [enc |-> "sec1", key |-> k]
\* the 20 address bytes of a key
AddressBytes(k) == [enc |-> "address", key |-> k]
\* an address as the hex string a library returns (mixed-case checksum) or as
\* written all in lower case
ChecksumAddress(k) == [key |-> k, case |-> "checksum"]
Lower(address) == [address EXCEPT !.case = "lower"]

\* trust anchors a proof is verified against
Roots ==
    {ChecksumAddress(KmsRootKey), Lower(ChecksumAddress(KmsRootKey)),
     ChecksumAddress(DeployedKmsKey)}

\* ------------------------------------------------------------ byte strings
Bytes32Len == 32
Bytes20Len == 20

\* application identifiers as the key service reports them (20 bytes), and
\* shorter and longer ones
AppIds ==
    {<<>>, <<170, 187, 204, 221>>, <<5, 0>>, [i \in 1..Bytes20Len |-> 160 + i],
     [i \in 1..Bytes32Len |-> i], [i \in 1..(Bytes32Len + 1) |-> i]}

\* bytes.hex(): two hexadecimal digits per byte, high digit first
ToHex(b) ==
    [i \in 1..(2 * Len(b)) |->
        IF i % 2 = 1 THEN b[(i + 1) \div 2] \div 16 ELSE b[i \div 2] % 16]

\* bytes.fromhex() of a string of hexadecimal digits
FromHex(digits) ==
    [i \in 1..(Len(digits) \div 2) |-> 16 * digits[2 * i - 1] + digits[2 * i]]

\* a hexadecimal string, with or without "0x" in front
HexString(b, prefixed) == [prefix0x |-> prefixed, digits |-> ToHex(b)]

\* s.replace('0x', ''): hexadecimal digits hold no 'x', so only a leading
\* "0x" goes
Replace0x(s) == s.digits

\* b.rjust(n, b'\x00'): zero bytes in front
Rjust(b, n) == IF Len(b) >= n THEN b ELSE [i \in 1..(n - Len(b)) |-> 0] \o b

\* b.ljust(n, b'\x00'): zero bytes behind
Ljust(b, n) == IF Len(b) >= n THEN b ELSE b \o [i \in 1..(n - Len(b)) |-> 0]

\* b[:n]
Take(b, n) == SubSeq(b, 1, IF Len(b) < n THEN Len(b) ELSE n)

\* A variant that pads on the left.
AppIdBytes32LeftPadded(app_id) == Take(Rjust(FromHex(Replace0x(app_id)), Bytes32Len), Bytes32Len)

\* register(): bytes.fromhex(app_id.replace('0x', '')).ljust(32, b'\x00')[:32]
AppIdBytes32(app_id) == Take(Ljust(FromHex(Replace0x(app_id)), Bytes32Len), Bytes32Len)

\* test_signature_formats, test_contract_call: the same expression on proof.app_id
TestAppIdBytes32(app_id) == Take(Ljust(FromHex(Replace0x(app_id)), Bytes32Len), Bytes32Len)

\* test_signature_formats: bytes.fromhex(proof.app_id.replace('0x', ''))[:20]
TestAppIdBytes20(app_id) == Take(FromHex(Replace0x(app_id)), Bytes20Len)

\* ------------------------------------------------- messages and signatures
\* The text signed with the application key: purpose, ":", and the key as
\* hexadecimal text (prefix0x: with "0x" in front).
KeyText(key, prefixed) == [key |-> key, prefix0x |-> prefixed]

DerivedKeyText(purpose, keyText) ==
    [tag |-> "derived", purpose |-> purpose, text |-> keyText, app_id |-> <<>>]

\* derivedKeyMessage = purpose + ":" + lowerHex(derivedPublicKey)
DerivedKeyMessage(purpose, derivedPublicKey) ==
    DerivedKeyText(purpose, KeyText(derivedPublicKey, FALSE))

\* The bytes the key-management root signs: a prefix, the application
\* identifier and key bytes.
KmsMessage(prefix, app_id, keyBytes) ==
    [tag |-> prefix, purpose |-> "", text |-> KeyText(keyBytes, FALSE), app_id |-> app_id]

KmsPrefix == "dstack-kms-issued:"

\* keccak(bytes): no padding, no prefix
Keccak(message) == [of |-> message, signedMessagePrefix |-> FALSE]

\* keccak("\x19Ethereum Signed Message:\n" + len + message)
KeccakOfSignedMessage(message) == [of |-> message, signedMessagePrefix |-> TRUE]

\* A 65-byte recoverable signature r || s || v.  `bytes` tells how its bytes
\* differ from the ones the signer produced: "intact"; "rs": a byte of r or
\* s differs and recovery still yields a point; "rs_invalid": a byte of r or
\* s differs and no point can be recovered; "v_flip": v names the other
\* recovery id; "v_alias": v is another encoding of the same recovery id
\* (27/28 or 35+ for 0/1); "v_invalid": v is no recovery id.
Sign(key, hash) == [signer |-> key, hash |-> hash, bytes |-> "intact"]

ByteAlterations == {"rs", "rs_invalid", "v_flip", "v_alias", "v_invalid"}

Recovered(key) == [raised |-> FALSE, key |-> key]
RecoveryRaised == [raised |-> TRUE, key |-> JunkKey]

\* A variant that returns the signer whatever hash is given.
RecoverHashOfAnyMessage(hash, signature) ==
    IF signature.bytes \in {"rs_invalid", "v_invalid"} THEN RecoveryRaised
    ELSE IF signature.bytes \in {"intact", "v_alias"}
    THEN Recovered(signature.signer)
    ELSE Recovered(JunkKey)

\* Account._recover_hash(hash, signature=bytes): v is first brought to 0/1
\* (0, 1, 27, 28 and 35+ are taken, anything else raises), then the key is
\* recovered; the result is the key's address.
RecoverHash(hash, signature) ==
    IF signature.bytes \in {"rs_invalid", "v_invalid"} THEN RecoveryRaised
    ELSE IF signature.bytes \in {"intact", "v_alias"} /\ signature.hash = hash
    THEN Recovered(signature.signer)
    ELSE Recovered(JunkKey)

\* keys.Signature(bytes).recover_public_key_from_msg_hash(hash): v must be
\* 0 or 1, or the constructor raises.
RecoverPublicKeyFromMsgHash(hash, signature) ==
    IF signature.bytes \in {"rs_invalid", "v_invalid", "v_alias"} THEN RecoveryRaised
    ELSE IF signature.bytes = "intact" /\ signature.hash = hash
    THEN Recovered(signature.signer)
    ELSE Recovered(JunkKey)

\* appId as the proof format fixes it: 32 bytes, zero bytes on the right
ZeroRightPad32(app_id) == Take(Ljust(app_id, Bytes32Len), Bytes32Len)

\* ---------------------------------------------------------- ProofGenerator
\* The proof record as its callers read it: derived_private_key,
\* app_signature, kms_signature, app_id (hexadecimal text) and purpose.
NoProof ==
    [derived_private_key |-> JunkKey, purpose |-> "",
     app_signature |-> [signer |-> JunkKey, hash |-> Keccak(DerivedKeyMessage("", Sec1(JunkKey))),
                        bytes |-> "rs_invalid"],
     kms_signature |-> [signer |-> JunkKey, hash |-> Keccak(DerivedKeyMessage("", Sec1(JunkKey))),
                        bytes |-> "rs_invalid"],
     app_id |-> HexString(<<>>, FALSE)]

KeyServiceOutcomes == {"ok", "KeyServiceUnavailable", "SigningFailed"}

\* GenerateProof(keyPath, purpose): key material from the key service, the
\* application key's signature over the derived-key message, the root's
\* signature over the prefix, the application identifier right-padded to 32
\* bytes and the compressed application key.  `app_id` and `prefixed` are
\* the application identifier and the way it is written; `ks` is what the
\* key service does.  A failure returns the error and no proof.
GenerateProof(keyPath, purpose, app_id, prefixed, ks) ==
    IF ks # "ok"
    THEN [ok |-> FALSE, error |-> ks, proof |-> NoProof]
    ELSE [ok |-> TRUE, error |-> "none",
          proof |->
            [derived_private_key |-> DerivedKey(keyPath, purpose),
             purpose |-> purpose,
             app_signature |->
                Sign(AppKey, Keccak(DerivedKeyMessage(purpose, Sec1(DerivedKey(keyPath, purpose))))),
             kms_signature |->
                Sign(KmsRootKey,
                     Keccak(KmsMessage(KmsPrefix, ZeroRightPad32(app_id), Sec1(AppKey)))),
             app_id |-> HexString(app_id, prefixed)]]

\* ----------------------------------------------------------- ProofVerifier
\* Recovery as the verifier of the design does it: it fails on a malformed
\* signature and on a wrong recovery id.
RecoverSigner(hash, signature) ==
    IF signature.bytes \in {"rs_invalid", "v_invalid", "v_alias"} THEN RecoveryRaised
    ELSE IF signature.bytes = "intact" /\ signature.hash = hash
    THEN Recovered(signature.signer)
    ELSE Recovered(JunkKey)

\* A variant that takes the signer for the root whatever the trust anchor is.
RootMatchesAnyKnownRoot(kms_signer, kms_root_address) ==
    Lower(kms_signer) \in {Lower(r) : r \in Roots}

\* kms_signer.lower() == kms_root_address.lower()
RootMatches(kms_signer, kms_root_address) ==
    Lower(kms_signer) = Lower(kms_root_address)

\* Verify(proof, trustAnchor): the three steps of the verifier; the result is
\* "accept" or the kind of the failure.
Verify(proof, trustAnchor) ==
    LET app == RecoverSigner(
                   Keccak(DerivedKeyMessage(proof.purpose, Sec1(proof.derived_private_key))),
                   proof.app_signature)
        kms == RecoverSigner(
                   Keccak(KmsMessage(KmsPrefix, ZeroRightPad32(FromHex(proof.app_id.digits)),
                                     Sec1(app.key))),
                   proof.kms_signature)
    IN  IF app.raised THEN "AppSignatureInvalid"
        ELSE IF kms.raised THEN "KmsSignatureInvalid"
        ELSE IF Lower(ChecksumAddress(kms.key)) = Lower(trustAnchor) THEN "accept"
        ELSE "RootMismatch"

\* ------------------------------------ register(): recovery of the app key
\* A variant that hashes the text as a signed message.
AppMessageHashWithSignedMessagePrefix(derived_pubkey_sec1) ==
    KeccakOfSignedMessage(DerivedKeyText(RegisterPurpose, KeyText(derived_pubkey_sec1, FALSE)))

\* app_message = f"ethereum:{derived_pubkey_sec1.hex()}" and its raw keccak
AppMessageHash(derived_pubkey_sec1) ==
    Keccak(DerivedKeyText(RegisterPurpose, KeyText(derived_pubkey_sec1, FALSE)))

\* register(): the compressed application key recovered from app_signature
RecoverAppPubkey(proof) ==
    RecoverPublicKeyFromMsgHash(AppMessageHash(Sec1(proof.derived_private_key)),
                                proof.app_signature)

\* ------------------------------------------------- test_signature_formats
NoFormats ==
    [returned |-> FALSE, app_signer |-> JunkKey, app_pubkey_sec1 |-> Sec1(JunkKey),
     working_format |-> FALSE, kms_working |-> FALSE, kms_current |-> FALSE,
     app_id_bytes32 |-> <<>>]

\* test_signature_formats, from the proof on: the application key's address
\* by the three candidate hashes, the application key by the raw hash, the
\* root by the preimage with 20 and with 32 bytes of application identifier.
\* An exception anywhere ends in `return None`.  kms_current is the printed
\* "Current KMS matches".
TestSignatureFormats(proof, KMS_ROOT_ADDRESS) ==
    LET derived_pubkey_sec1 == Sec1(proof.derived_private_key)
        text == DerivedKeyText(RegisterPurpose, KeyText(derived_pubkey_sec1, FALSE))
        app_signer_working == RecoverHash(Keccak(text), proof.app_signature)
        app_signer_current == RecoverHash(KeccakOfSignedMessage(text), proof.app_signature)
        app_pubkey == RecoverPublicKeyFromMsgHash(Keccak(text), proof.app_signature)
        app_pubkey_sec1 == Sec1(app_pubkey.key)
        kms_signer_working ==
            RecoverHash(Keccak(KmsMessage(KmsPrefix, TestAppIdBytes20(proof.app_id),
                                          app_pubkey_sec1)),
                        proof.kms_signature)
        kms_signer_current ==
            RecoverHash(Keccak(KmsMessage(KmsPrefix, TestAppIdBytes32(proof.app_id),
                                          app_pubkey_sec1)),
                        proof.kms_signature)
    IN  IF \/ app_signer_working.raised \/ app_signer_current.raised
           \/ app_pubkey.raised
           \/ kms_signer_working.raised \/ kms_signer_current.raised
        THEN NoFormats
        ELSE [returned |-> TRUE,
              app_signer |-> app_signer_working.key,
              app_pubkey_sec1 |-> app_pubkey_sec1,
              working_format |-> TRUE,
              kms_working |-> RootMatches(ChecksumAddress(kms_signer_working.key),
                                          KMS_ROOT_ADDRESS),
              kms_current |-> RootMatches(ChecksumAddress(kms_signer_current.key),
                                          KMS_ROOT_ADDRESS),
              app_id_bytes32 |-> TestAppIdBytes32(proof.app_id)]

\* Step 1 of the debug script: purpose, ":" and "0x" followed by the hex of
\* the derived public key, hashed with Web3.keccak.
DebugDerivedKeyHash(proof) ==
    Keccak(DerivedKeyText(proof.purpose,
                          KeyText(Sec1(proof.derived_private_key), TRUE)))

\* ------------------------------------------- debug_signature_verification
\* debug_signature_verification, from the proof on.  Step 1 recovers the
\* application key's address over purpose + ":" + "0x" + hex and returns
\* False when that raises.  Step 2 tries four preimages; each recovery is in
\* a try whose handler only prints, so a recovery that raises leaves its
\* signer_N unbound and `kms_signer = signer_1` raises.  The key bytes of
\* the preimages are the bytes of the recovered address.  The result is
\* "true", "false" or "raised".
DebugSignatureVerification(proof, kms_root_address) ==
    LET derived_key_hash == DebugDerivedKeyHash(proof)
        app == RecoverHash(derived_key_hash, proof.app_signature)
        app_public_key_bytes == AddressBytes(app.key)
        app_id == FromHex(Replace0x(proof.app_id))
        signer_1 == RecoverHash(Keccak(KmsMessage(KmsPrefix, app_id, app_public_key_bytes)),
                                proof.kms_signature)
        signer_2 == RecoverHash(derived_key_hash, proof.kms_signature)
        signer_3 == RecoverHash(Keccak(KmsMessage("", app_id, app_public_key_bytes)),
                                proof.kms_signature)
        signer_4 == RecoverHash(Keccak(KmsMessage("", <<>>, app_public_key_bytes)),
                                proof.kms_signature)
    IN  IF app.raised THEN "false"
        ELSE IF signer_1.raised \/ signer_2.raised \/ signer_3.raised \/ signer_4.raised
        THEN "raised"
        ELSE IF RootMatches(ChecksumAddress(signer_1.key), kms_root_address) THEN "true"
        ELSE "false"

\* ------------------------------------------------ a proof and its verifiers
NoOut ==
    [verify |-> "none", debug |-> "none", formats |-> NoFormats,
     app_pubkey |-> RecoveryRaised, app_id_bytes32 |-> <<>>]

\* stage: "idle", "failed" (generation returned an error), "generated",
\* "verified"; alter: what was changed after generation; generated: the
\* purpose of generation; root: the trust anchor of the verification.
NoProofRun ==
    [stage |-> "idle", proof |-> NoProof, error |-> "none", generated |-> "",
     alter |-> "none", root |-> ChecksumAddress(KmsRootKey), out |-> NoOut]

\* The generator is called.
GenerateProofCall ==
    /\ pv.stage = "idle"
    /\ \E keyPath \in KeyPaths, purpose \in Purposes, app_id \in AppIds,
          prefixed \in BOOLEAN, ks \in KeyServiceOutcomes :
          LET g == GenerateProof(keyPath, purpose, app_id, prefixed, ks)
          IN  pv' = [pv EXCEPT !.stage = IF g.ok THEN "generated" ELSE "failed",
                               !.proof = g.proof, !.error = g.error,
                               !.generated = purpose]
    /\ UNCHANGED <<nodeVars, phase, taskVars, tick, ledgerLeader, ledgerTxs, response, sdk, otherVars>>

\* One byte of one of the proof's signatures is altered.
AlterSignatureByte ==
    /\ pv.stage = "generated"
    /\ pv.alter = "none"
    /\ \E a \in ByteAlterations :
          \/ pv' = [pv EXCEPT !.alter = "app_signature", !.proof.app_signature.bytes = a]
          \/ pv' = [pv EXCEPT !.alter = "kms_signature", !.proof.kms_signature.bytes = a]
    /\ UNCHANGED <<nodeVars, phase, taskVars, tick, ledgerLeader, ledgerTxs, response, sdk, otherVars>>

\* The proof is presented with another purpose than it was generated for.
PresentOtherPurpose ==
    /\ pv.stage = "generated"
    /\ pv.alter = "none"
    /\ \E purpose \in Purposes \ {pv.generated} :
          pv' = [pv EXCEPT !.alter = "purpose", !.proof.purpose = purpose]
    /\ UNCHANGED <<nodeVars, phase, taskVars, tick, ledgerLeader, ledgerTxs, response, sdk, otherVars>>

\* The proof is given to the verifier and to the recomputations of
\* register() and of the two scripts, all against the same trust anchor.
VerifyProof ==
    /\ pv.stage = "generated"
    /\ \E root \in Roots :
          pv' = [pv EXCEPT !.stage = "verified",
                           !.root = root,
                           !.out = [verify |-> Verify(pv.proof, root),
                                    debug |-> DebugSignatureVerification(pv.proof, root),
                                    formats |-> TestSignatureFormats(pv.proof, root),
                                    app_pubkey |-> RecoverAppPubkey(pv.proof),
                                    app_id_bytes32 |-> AppIdBytes32(pv.proof.app_id)]]
    /\ UNCHANGED <<nodeVars, phase, taskVars, tick, ledgerLeader, ledgerTxs, response, sdk, otherVars>>

\* ------------------------------------------------ DStackP2PSDK.register()
InfoOutcomes == {"ok", "no_instance_id", "fail"}
\* what becomes of a transaction: "mined" (receipt with status 1),
\* "reverted" (receipt with status 0), "rejected" (building, signing or
\* sending raised), "timeout" (sent; waiting for the receipt raised)
TxOutcomes == {"mined", "reverted", "rejected", "timeout"}

InstanceId == "instance-1"

NoCall == [ret |-> "none", generation |-> "none", txs |-> <<>>]

\* DStackP2PSDK.__init__: registered = False, no instance id yet
NewSdk == [registered |-> FALSE, instance_id |-> "none", call |-> NoCall]

RegisterInstanceTx(instance_id, outcome) ==
    [fn |-> "registerInstance", outcome |-> outcome, instance_id |-> instance_id,
     purpose |-> "", app_id |-> <<>>, app_pubkey |-> Sec1(JunkKey)]

RegisterPeerTx(instance_id, app_pubkey_sec1, app_id_bytes32, outcome) ==
    [fn |-> "registerPeer", outcome |-> outcome, instance_id |-> instance_id,
     purpose |-> RegisterPurpose, app_id |-> app_id_bytes32, app_pubkey |-> app_pubkey_sec1]

\* send_transaction returns the receipt whatever its status is, and raises
\* when building, signing, sending or waiting raises.
SendTransactionReturns(outcome) == outcome \in {"mined", "reverted"}

\* A variant in which a failed call also clears `registered`.
FailedClearsRegistered(s, generation, txs) ==
    [s EXCEPT !.registered = FALSE,
              !.call = [ret |-> "False", generation |-> generation, txs |-> txs]]

Failed(s, generation, txs) ==
    [s EXCEPT !.call = [ret |-> "False", generation |-> generation, txs |-> txs]]

\* A variant that registers the instance before it asks for the proof.
RegisterResultInstanceFirst(s, info, g, env, ri, rp) ==
    IF info = "fail" THEN Failed(s, "none", <<>>)
    ELSE IF info = "no_instance_id" THEN Failed([s EXCEPT !.instance_id = ""], "none", <<>>)
    ELSE LET t == [s EXCEPT !.instance_id = InstanceId]
             first == <<RegisterInstanceTx(InstanceId, ri)>>
         IN  IF ~g.ok THEN Failed(t, g.error, first)
             ELSE IF RecoverAppPubkey(g.proof).raised THEN Failed(t, "ok", first)
             ELSE IF env = "unset" THEN Failed(t, "ok", first)
             ELSE LET txs == first \o
                             <<RegisterPeerTx(InstanceId, Sec1(RecoverAppPubkey(g.proof).key),
                                              AppIdBytes32(g.proof.app_id), rp)>>
                  IN  IF SendTransactionReturns(rp)
                      THEN [t EXCEPT !.registered = TRUE,
                                     !.call = [ret |-> "True", generation |-> "ok", txs |-> txs]]
                      ELSE Failed(t, "ok", txs)

\* A variant in which a failed registerInstance ends the call.
RegisterResultInstanceFailureAborts(s, info, g, env, ri, rp) ==
    IF info = "fail" THEN Failed(s, "none", <<>>)
    ELSE IF info = "no_instance_id" THEN Failed([s EXCEPT !.instance_id = ""], "none", <<>>)
    ELSE LET t == [s EXCEPT !.instance_id = InstanceId]
         IN  IF ~g.ok THEN Failed(t, g.error, <<>>)
             ELSE IF RecoverAppPubkey(g.proof).raised THEN Failed(t, "ok", <<>>)
             ELSE IF env = "unset" THEN Failed(t, "ok", <<>>)
             ELSE IF ~SendTransactionReturns(ri)
             THEN Failed(t, "ok", <<RegisterInstanceTx(InstanceId, ri)>>)
             ELSE LET txs == <<RegisterInstanceTx(InstanceId, ri),
                               RegisterPeerTx(InstanceId, Sec1(RecoverAppPubkey(g.proof).key),
                                              AppIdBytes32(g.proof.app_id), rp)>>
                  IN  IF SendTransactionReturns(rp)
                      THEN [t EXCEPT !.registered = TRUE,
                                     !.call = [ret |-> "True", generation |-> "ok", txs |-> txs]]
                      ELSE Failed(t, "ok", txs)

\* register(): info(), generate_proof, the application key recovered from
\* the proof, the application identifier as bytes32, PRIVATE_KEY from the
\* environment, then the registerInstance transaction (a failure is only
\* logged) and the registerPeer transaction, whose return decides the
\* result.  Every exception elsewhere ends in `return False`.  `g` is what
\* generate_proof gave, `env` whether PRIVATE_KEY is set, `ri` and `rp` what
\* becomes of the two transactions.
RegisterResult(s, info, g, env, ri, rp) ==
    IF info = "fail" THEN Failed(s, "none", <<>>)
    ELSE IF info = "no_instance_id" THEN Failed([s EXCEPT !.instance_id = ""], "none", <<>>)
    ELSE LET t == [s EXCEPT !.instance_id = InstanceId]
         IN  IF ~g.ok THEN Failed(t, g.error, <<>>)
             ELSE IF RecoverAppPubkey(g.proof).raised THEN Failed(t, "ok", <<>>)
             ELSE IF env = "unset" THEN Failed(t, "ok", <<>>)
             ELSE LET txs == <<RegisterInstanceTx(InstanceId, ri),
                               RegisterPeerTx(InstanceId, Sec1(RecoverAppPubkey(g.proof).key),
                                              AppIdBytes32(g.proof.app_id), rp)>>
                  IN  IF SendTransactionReturns(rp)
                      THEN [t EXCEPT !.registered = TRUE,
                                     !.call = [ret |-> "True", generation |-> "ok", txs |-> txs]]
                      ELSE Failed(t, "ok", txs)

\* One call of register().
Register ==
    /\ \E info \in InfoOutcomes, app_id \in AppIds, prefixed \in BOOLEAN,
          ks \in KeyServiceOutcomes, env \in {"set", "unset"},
          ri \in TxOutcomes, rp \in TxOutcomes :
          sdk' = RegisterResult(sdk, info,
                     GenerateProof(RegisterKeyPath, RegisterPurpose, app_id, prefixed, ks),
                     env, ri, rp)
    /\ UNCHANGED <<nodeVars, phase, taskVars, tick, ledgerLeader, ledgerTxs, response, pv, otherVars>>

\* ------------------------------------------------------------ peer monitoring
\* the lists getPeerEndpoints() can return
PeerLists == {<<>>, <<"http://b:8080">>, <<"http://b:8080", "http://c:8080">>}

\* monitor_peers before its first poll: last_peers = [], no callback made.
\* ledger: the contract's peer endpoints; query: what the latest
\* getPeerEndpoints() call did; callbacks: the calls of `callback`, each
\* with its argument, whether the ledger returned that list in the poll,
\* and whether the callback raised.
NoPeerMonitor ==
    [ledger |-> <<>>, last_peers |-> <<>>, polls |-> 0, query |-> "none",
     callbacks |-> <<>>]

\* get_peers(): the ledger's list, or [] when the query raises
GetPeers(ledger, q) == IF q = "ok" THEN ledger ELSE <<>>

\* One iteration of the loop of monitor_peers: poll, compare with
\* last_peers, call back and remember the list on a difference, sleep.  A
\* callback that raises leaves last_peers as it was.
MonitorPeers ==
    /\ peerMon.polls < MaxPolls
    /\ \E q \in CallOutcomes, cb \in {"returns", "raises"} :
          LET current_peers == GetPeers(peerMon.ledger, q)
              polled == [peerMon EXCEPT !.polls = @ + 1, !.query = q]
          IN  peerMon' =
                IF current_peers # peerMon.last_peers
                THEN [polled EXCEPT
                        !.callbacks = Append(@, [arg |-> current_peers,
                                                 reported |-> (q = "ok"),
                                                 raised |-> (cb = "raises")]),
                        !.last_peers = IF cb = "returns" THEN current_peers ELSE @]
                ELSE polled
    /\ UNCHANGED <<nodeVars, phase, taskVars, tick, ledgerLeader, ledgerTxs, response,
                   pv, sdk, boot, mint, peer, reg, wait>>

\* A member registers or leaves: the contract's endpoint list changes.
LedgerPeersChange ==
    /\ \E l \in PeerLists \ {peerMon.ledger} : peerMon' = [peerMon EXCEPT !.ledger = l]
    /\ UNCHANGED <<nodeVars, phase, taskVars, tick, ledgerLeader, ledgerTxs, response,
                   pv, sdk, boot, mint, peer, reg, wait>>

\* ------------------------------------------------------------ FastAPI server
\* The server before its lifespan ran: `sdk` is None, nothing was minted.
\* app: "down", "no_sdk" (DStackP2PSDK(...) raised), "up"; env: PRIVATE_KEY;
\* holdsNft: walletToTokenId(owner) > 0 on the ledger; calls: the calls of
\* mint_nft_if_needed; submitted: the mintNodeAccess transactions broadcast
\* so far; resp: the latest HTTP response.
NoApiResponse ==
    [op |-> "none", status |-> 0, external |-> FALSE, query |-> "none", count |-> 0]

NoMint ==
    [app |-> "down", env |-> "unknown", holdsNft |-> FALSE,
     calls |-> 0, submitted |-> 0, ret |-> "none", resp |-> NoApiResponse]

\* the functions of the contract_abi of DStackP2PSDK.__init__
SdkAbiFunctions == {"registerInstance", "registerPeer", "getPeerEndpoints"}
\* the methods DStackP2PSDK defines
SdkMethods == {"register", "get_peers", "monitor_peers"}

\* a transaction with this outcome reached the ledger
Broadcast(outcome) == outcome \in {"mined", "reverted", "timeout"}

\* mint_nft_if_needed: the owner address from PRIVATE_KEY, the instance id
\* from info(), then a mintNodeAccess transaction built, signed, sent and
\* awaited; True for a receipt with status 1.  The walletToTokenId check
\* ahead of it is commented out.  sdk_instance.contract.functions raises for
\* a function that its ABI does not list, which ends the call in the
\* `except` with False before anything is built.
MintNftIfNeeded(m, info, outcome) ==
    LET c == [m EXCEPT !.calls = @ + 1]
    IN  IF info # "ok" THEN [c EXCEPT !.ret = "False"]
        ELSE IF "mintNodeAccess" \notin SdkAbiFunctions THEN [c EXCEPT !.ret = "False"]
        ELSE [c EXCEPT !.submitted = IF Broadcast(outcome) THEN @ + 1 ELSE @,
                       !.holdsNft = @ \/ (outcome = "mined"),
                       !.ret = IF outcome = "mined" THEN "True" ELSE "False"]

\* the application identifier info() reports on this host
HostAppId == [i \in 1..Bytes20Len |-> 160 + i]

\* what sdk.register() can leave behind when PRIVATE_KEY is set
RegisterWithPrivateKey(s) ==
    {RegisterResult(s, info,
                    GenerateProof(RegisterKeyPath, RegisterPurpose, HostAppId, FALSE, ks),
                    "set", ri, rp) :
        info \in InfoOutcomes, ks \in KeyServiceOutcomes,
        ri \in TxOutcomes, rp \in TxOutcomes}

\* A variant of the refusals without the check of the SDK object.
RefusalWithoutSdkCheck(m, needsKey) ==
    IF needsKey /\ m.env = "unset" THEN 400
    ELSE 0

\* what a handler answers before it does anything else: 503 without the SDK
\* object, for the POST handlers 400 without PRIVATE_KEY, 0 to go on
Refusal(m, needsKey) ==
    IF m.app = "no_sdk" THEN 503
    ELSE IF needsKey /\ m.env = "unset" THEN 400
    ELSE 0

ApiResponse(op, status, external) ==
    [NoApiResponse EXCEPT !.op = op, !.status = status, !.external = external]

\* lifespan(): the SDK object, the wait for the agent, and with PRIVATE_KEY
\* set mint_nft_if_needed followed by sdk.register(); every failure is
\* logged and the server comes up.
Lifespan ==
    /\ mint.app = "down"
    /\ \E ctor \in {"ok", "raised"}, agent \in {"ready", "never"}, env \in {"set", "unset"},
          info \in InfoOutcomes, outcome \in TxOutcomes :
          IF ctor = "raised"
          THEN /\ mint' = [mint EXCEPT !.app = "no_sdk", !.env = env]
               /\ UNCHANGED sdk
          ELSE IF agent = "never" \/ env = "unset"
          THEN /\ mint' = [mint EXCEPT !.app = "up", !.env = env]
               /\ UNCHANGED sdk
          ELSE /\ mint' = MintNftIfNeeded([mint EXCEPT !.app = "up", !.env = env], info, outcome)
               /\ sdk' \in RegisterWithPrivateKey(sdk)
    /\ UNCHANGED <<nodeVars, phase, taskVars, tick, ledgerLeader, ledgerTxs, response, pv, boot,
                   peerMon, peer, reg, wait>>

\* A variant of POST /mint-nft that looks at PRIVATE_KEY only inside
\* mint_nft_if_needed.
MintNftWithoutKeyCheck ==
    /\ mint.app # "down"
    /\ IF Refusal(mint, FALSE) # 0
       THEN mint' = [mint EXCEPT !.resp = ApiResponse("mint-nft", Refusal(mint, FALSE), FALSE)]
       ELSE /\ mint.calls < MaxMintCalls
            /\ \E info \in InfoOutcomes, outcome \in TxOutcomes :
                  mint' = [MintNftIfNeeded(mint, info, outcome) EXCEPT
                             !.resp = ApiResponse("mint-nft", 500, TRUE)]
    /\ UNCHANGED <<nodeVars, phase, taskVars, tick, ledgerLeader, ledgerTxs, response,
                   pv, sdk, boot, peerMon, peer, reg, wait>>

\* POST /mint-nft: 503 without the SDK object, 400 without PRIVATE_KEY,
\* else mint_nft_if_needed and, after a success, walletToTokenId for the
\* body; a failure of either is answered with 500.
MintNft ==
    /\ mint.app # "down"
    /\ IF Refusal(mint, TRUE) # 0
       THEN mint' = [mint EXCEPT !.resp = ApiResponse("mint-nft", Refusal(mint, TRUE), FALSE)]
       ELSE /\ mint.calls < MaxMintCalls
            /\ \E info \in InfoOutcomes, outcome \in TxOutcomes, q \in CallOutcomes :
                  LET m == MintNftIfNeeded(mint, info, outcome)
                      ok == /\ m.ret = "True"
                            /\ "walletToTokenId" \in SdkAbiFunctions
                            /\ q = "ok"
                  IN  mint' = [m EXCEPT !.resp = ApiResponse("mint-nft",
                                                   IF ok THEN 200 ELSE 500, TRUE)]
    /\ UNCHANGED <<nodeVars, phase, taskVars, tick, ledgerLeader, ledgerTxs, response,
                   pv, sdk, boot, peerMon, peer, reg, wait>>

\* POST /register: the same two refusals, else mint_nft_if_needed and,
\* whatever it returned, sdk.register(), whose result decides between 200
\* and 500.
PostRegister ==
    /\ mint.app # "down"
    /\ IF Refusal(mint, TRUE) # 0
       THEN /\ mint' = [mint EXCEPT !.resp = ApiResponse("register", Refusal(mint, TRUE), FALSE)]
            /\ UNCHANGED sdk
       ELSE /\ mint.calls < MaxMintCalls
            /\ sdk' \in RegisterWithPrivateKey(sdk)
            /\ \E info \in InfoOutcomes, outcome \in TxOutcomes :
                  mint' = [MintNftIfNeeded(mint, info, outcome) EXCEPT
                             !.resp = ApiResponse("register",
                                          IF sdk'.call.ret = "True" THEN 200 ELSE 500, TRUE)]
    /\ UNCHANGED <<nodeVars, phase, taskVars, tick, ledgerLeader, ledgerTxs, response, pv, boot,
                   peerMon, peer, reg, wait>>

\* POST /register-instance and POST /register-peer: the same two refusals,
\* else sdk.register_instance() or sdk.register_peer(); DStackP2PSDK has
\* neither method, and the AttributeError is answered with 500.
PostRegisterInstanceOrPeer ==
    /\ mint.app # "down"
    /\ \E op \in {"register-instance", "register-peer"} :
          mint' = [mint EXCEPT !.resp =
                     IF Refusal(mint, TRUE) # 0
                     THEN ApiResponse(op, Refusal(mint, TRUE), FALSE)
                     ELSE ApiResponse(op, IF {"register_instance", "register_peer"}
                                               \subseteq SdkMethods
                                          THEN 200 ELSE 500, FALSE)]
    /\ UNCHANGED <<nodeVars, phase, taskVars, tick, ledgerLeader, ledgerTxs, response,
                   pv, sdk, boot, peerMon, peer, reg, wait>>

\* GET /peers: 503 without the SDK object, else sdk.get_peers() and 200 with
\* the list and its length; the `except` answering 500 guards a call that
\* does not raise.
ListPeers ==
    /\ mint.app # "down"
    /\ \E q \in CallOutcomes :
          mint' = [mint EXCEPT !.resp =
                     IF Refusal(mint, FALSE) # 0
                     THEN ApiResponse("peers", Refusal(mint, FALSE), FALSE)
                     ELSE [ApiResponse("peers", 200, TRUE) EXCEPT
                             !.query = q,
                             !.count = Len(GetPeers(peerMon.ledger, q))]]
    /\ UNCHANGED <<nodeVars, phase, taskVars, tick, ledgerLeader, ledgerTxs, response,
                   pv, sdk, boot, peerMon, peer, reg, wait>>

\* GET /info: 503 without the SDK object, else the attributes of the object.
InstanceInfo ==
    /\ mint.app # "down"
    /\ mint' = [mint EXCEPT !.resp =
                  IF Refusal(mint, FALSE) # 0
                  THEN ApiResponse("info", Refusal(mint, FALSE), FALSE)
                  ELSE ApiResponse("info", 200, FALSE)]
    /\ UNCHANGED <<nodeVars, phase, taskVars, tick, ledgerLeader, ledgerTxs, response,
                   pv, sdk, boot, peerMon, peer, reg, wait>>

\* GET /health of the FastAPI server: "healthy", with or without the SDK object.
ServerHealthCheck ==
    /\ mint.app # "down"
    /\ mint' = [mint EXCEPT !.resp = ApiResponse("health", 200, FALSE)]
    /\ UNCHANGED <<nodeVars, phase, taskVars, tick, ledgerLeader, ledgerTxs, response,
                   pv, sdk, boot, peerMon, peer, reg, wait>>

\* The NFT owner mints for the owner address outside this server.
LedgerMintsForOwner ==
    /\ ~mint.holdsNft
    /\ mint' = [mint EXCEPT !.holdsNft = TRUE]
    /\ UNCHANGED <<nodeVars, phase, taskVars, tick, ledgerLeader, ledgerTxs, response,
                   pv, sdk, boot, peerMon, peer, reg, wait>>

\* ------------------------------------------------------------ a second node
\* Another DistributedCounter of the cluster, running the same code under
\* its own host address against the same ledger.
PeerNode == "0xB2"

NewPeer == [is_leader |-> FALSE, counter_value |-> 0]

\* check_leader_status on the second node: is_leader follows a successful
\* currentLeader() and stays as it is when the query fails.
PeerCheckLeaderStatus ==
    /\ \E q \in CallOutcomes :
          peer' = IF q = "fail" THEN peer
                  ELSE [peer EXCEPT !.is_leader = (ledgerLeader = PeerNode)]
    /\ UNCHANGED <<nodeVars, phase, taskVars, tick, ledgerLeader, ledgerTxs, response,
                   pv, sdk, boot, mint, peerMon, reg, wait>>

\* POST /increment on the second node, accepted
PeerIncrementCounter ==
    /\ peer.is_leader
    /\ peer.counter_value < MaxOps
    /\ peer' = [peer EXCEPT !.counter_value = @ + 1]
    /\ UNCHANGED <<nodeVars, phase, taskVars, tick, ledgerLeader, ledgerTxs, response,
                   pv, sdk, boot, mint, peerMon, reg, wait>>

\* ------------------------------------------------------------ register_instance
\* token ids walletToTokenId can return: 0 (no NFT) and the id of an NFT
TokenIds == {0, 1}
\* self.token_id = None
NoTokenId == -1

\* token_id: self.token_id; result: what the latest call returned; sent: the
\* outcomes of the registerInstance transactions broadcast by the calls;
\* walletTokenId, active: walletToTokenId(host_address) and the active flag
\* of getInstanceInfo(instance_id) on the ledger.
NoRegistration ==
    [token_id |-> NoTokenId, result |-> "none", sent |-> <<>>, calls |-> 0,
     walletTokenId |-> 0, active |-> FALSE]

\* A variant of register_instance without the check of the active flag.
RegisterInstanceResultWithoutActiveCheck(r, wq, iq, outcome) ==
    LET c == [r EXCEPT !.calls = @ + 1]
    IN  IF wq = "fail" THEN [c EXCEPT !.result = "error"]
        ELSE LET t == [c EXCEPT !.token_id = r.walletTokenId]
             IN  IF r.walletTokenId = 0 THEN [t EXCEPT !.result = "needs_nft"]
                 ELSE IF iq = "fail" THEN [t EXCEPT !.result = "error"]
                 ELSE IF outcome = "rejected" THEN [t EXCEPT !.result = "error"]
                 ELSE LET u == [t EXCEPT !.sent = Append(@, outcome)]
                      IN  IF outcome = "mined"
                          THEN [u EXCEPT !.result = "ready", !.active = TRUE]
                          ELSE [u EXCEPT !.result = "error"]

\* register_instance(): walletToTokenId, getInstanceInfo, then the
\* registerInstance transaction built, signed, sent and awaited; `wq` and
\* `iq` are the outcomes of the two reads, `outcome` what becomes of the
\* transaction.  Every exception ends in {"error": ...}.
RegisterInstanceResult(r, wq, iq, outcome) ==
    LET c == [r EXCEPT !.calls = @ + 1]
    IN  IF wq = "fail" THEN [c EXCEPT !.result = "error"]
        ELSE LET t == [c EXCEPT !.token_id = r.walletTokenId]
             IN  IF r.walletTokenId = 0 THEN [t EXCEPT !.result = "needs_nft"]
                 ELSE IF iq = "fail" THEN [t EXCEPT !.result = "error"]
                 ELSE IF r.active THEN [t EXCEPT !.result = "ready"]
                 ELSE IF outcome = "rejected" THEN [t EXCEPT !.result = "error"]
                 ELSE LET u == [t EXCEPT !.sent = Append(@, outcome)]
                      IN  IF outcome = "mined"
                          THEN [u EXCEPT !.result = "ready", !.active = TRUE]
                          ELSE [u EXCEPT !.result = "error"]

\* One call of register_instance() on a constructed node.
RegisterInstance ==
    /\ phase \in {"constructed", "running", "stopped"}
    /\ reg.calls < MaxRegisterCalls
    /\ \E wq \in CallOutcomes, iq \in CallOutcomes, outcome \in TxOutcomes :
          reg' = RegisterInstanceResult(reg, wq, iq, outcome)
    /\ UNCHANGED <<nodeVars, phase, taskVars, tick, ledgerLeader, ledgerTxs, response,
                   pv, sdk, boot, mint, peerMon, peer, wait>>

\* The NFT owner mints for, or takes the NFT from, the host wallet.
LedgerSetsToken ==
    /\ \E t \in TokenIds \ {reg.walletTokenId} : reg' = [reg EXCEPT !.walletTokenId = t]
    /\ UNCHANGED <<nodeVars, phase, taskVars, tick, ledgerLeader, ledgerTxs, response,
                   pv, sdk, boot, mint, peerMon, peer, wait>>

\* deactivateInstance on the ledger
LedgerDeactivatesInstance ==
    /\ reg.active
    /\ reg' = [reg EXCEPT !.active = FALSE]
    /\ UNCHANGED <<nodeVars, phase, taskVars, tick, ledgerLeader, ledgerTxs, response,
                   pv, sdk, boot, mint, peerMon, peer, wait>>

\* ------------------------------------------------------------ readiness waits
\* The loops that wait for the dstack agent or for a simulator socket:
\* lifespan (fastapi_server.py), demo_p2p_usage (dstack_cluster.py),
\* _wait_for_socket (demo_two_nodes.py), wait_for_socket
\* (test_local_two_nodes.py). `attempt` is the loop variable, `probes` the
\* number of info() calls made so far.
MaxRetries == 30

WaitSites == {"lifespan", "demo_p2p_usage", "_wait_for_socket", "wait_for_socket"}

NoWait == [site |-> "none", attempt |-> 0, probes |-> 0, status |-> "idle"]

\* the two socket loops probe only when os.path.exists(socket_path)
ChecksSocketPath(site) == site \in {"_wait_for_socket", "wait_for_socket"}

\* how each loop ends when the last attempt failed
Exhaustion(site) ==
    CASE site = "lifespan"         -> "raised"
      [] site = "demo_p2p_usage"   -> "returned"
      [] site = "_wait_for_socket" -> "raised"
      [] OTHER                     -> "False"

\* A variant of the loop body that goes on as ready after the last attempt.
WaitIterationGoesOn(w, exists, infoOk) ==
    LET probed == ~ChecksSocketPath(w.site) \/ exists
        probes == IF probed THEN w.probes + 1 ELSE w.probes
    IN  IF probed /\ infoOk
        THEN [w EXCEPT !.probes = probes, !.status = "ready"]
        ELSE IF w.attempt < MaxRetries - 1
             THEN [w EXCEPT !.probes = probes, !.attempt = w.attempt + 1]
             ELSE [w EXCEPT !.probes = probes, !.status = "ready"]

\* One iteration of `for attempt in range(max_retries)`.
WaitIteration(w, exists, infoOk) ==
    LET probed == ~ChecksSocketPath(w.site) \/ exists
        probes == IF probed THEN w.probes + 1 ELSE w.probes
    IN  IF probed /\ infoOk
        THEN [w EXCEPT !.probes = probes, !.status = "ready"]
        ELSE IF w.attempt < MaxRetries - 1
             THEN [w EXCEPT !.probes = probes, !.attempt = w.attempt + 1]
             ELSE [w EXCEPT !.probes = probes, !.status = Exhaustion(w.site)]

\* A loop is entered.
WaitStart ==
    /\ wait.status = "idle"
    /\ \E site \in WaitSites :
          wait' = [site |-> site, attempt |-> 0, probes |-> 0, status |-> "waiting"]
    /\ UNCHANGED <<nodeVars, phase, taskVars, tick, ledgerLeader, ledgerTxs, response,
                   pv, sdk, boot, mint, peerMon, peer, reg>>

\* One iteration: the socket path exists or not, info() answers or raises.
WaitStep ==
    /\ wait.status = "waiting"
    /\ \E exists \in BOOLEAN, infoOk \in BOOLEAN :
          wait' = WaitIteration(wait, exists, infoOk)
    /\ UNCHANGED <<nodeVars, phase, taskVars, tick, ledgerLeader, ledgerTxs, response,
                   pv, sdk, boot, mint, peerMon, peer, reg>>

\* ------------------------------------------------------------ construction
\* DistributedCounter(...): what the caller passes and what the host offers.
Configs ==
    [host_private_key : {"given", "missing"},
     contract_address : {"given", "missing"},
     dstack_socket    : {"given", "missing"},
     simulatorSocket  : BOOLEAN,               \* ./simulator/dstack.sock exists
     keyService       : {"ok", "unreachable"}, \* DstackClient.info() / get_key()
     raised           : {"pending"}]

\* the arguments of main() on a host whose key service answers
DefaultConfig ==
    [host_private_key |-> "given", contract_address |-> "given",
     dstack_socket |-> "given", simulatorSocket |-> FALSE,
     keyService |-> "ok", raised |-> "pending"]

ConstructorOutcomes ==
    {"none", "host_private_key is required", "No dstack socket",
     "key service unreachable", "contract_address is required"}

\* _init_dstack_app_key(): the socket given or auto-detected, then info()
\* and get_key() over it.
InitDstackAppKey(c) ==
    IF c.dstack_socket = "missing" /\ ~c.simulatorSocket THEN "No dstack socket"
    ELSE IF c.keyService = "unreachable" THEN "key service unreachable"
    ELSE "none"

\* A variant of __init__ that builds the ledger client without an address.
ConstructorWithoutContractCheck(c) ==
    IF c.host_private_key = "missing" THEN "host_private_key is required"
    ELSE InitDstackAppKey(c)

\* __init__: the exception it raises ("none": it returns), in the order of
\* its checks.
Constructor(c) ==
    IF c.host_private_key = "missing" THEN "host_private_key is required"
    ELSE IF InitDstackAppKey(c) # "none" THEN InitDstackAppKey(c)
    ELSE IF c.contract_address = "missing" THEN "contract_address is required"
    ELSE "none"

\* main(): DistributedCounter(...) with the parsed arguments; an exception
\* leaves no object to start.
Construct ==
    /\ phase = "unconstructed"
    /\ boot.raised = "pending"
    /\ boot' = [boot EXCEPT !.raised = Constructor(boot)]
    /\ phase' = IF Constructor(boot) = "none" THEN "constructed" ELSE "failed"
    /\ UNCHANGED <<nodeVars, taskVars, tick, ledgerLeader, ledgerTxs, response, pv, sdk,
                   mint, peerMon, peer, reg, wait>>

\* ------------------------------------------------------------------- Init
Init ==
    /\ counter_value = 0
    /\ operation_log = <<>>
    /\ is_leader = FALSE
    /\ last_leader_heartbeat = 0
    /\ phase = "constructed"
    /\ monPc = "none"
    /\ monSleep = 0
    /\ hbPc = "none"
    /\ tick = NoTick
    /\ ledgerLeader \in LedgerAddresses
    /\ ledgerTxs = <<>>
    /\ response = NoResponse
    /\ pv = NoProofRun
    /\ sdk = NewSdk
    /\ boot = [DefaultConfig EXCEPT !.raised = Constructor(DefaultConfig)]
    /\ mint = NoMint
    /\ peerMon = NoPeerMonitor
    /\ peer = NewPeer
    /\ reg = NoRegistration
    /\ wait = NoWait

\* ---------------------------------------------------------------- actions
\* start(): the HTTP session, the two background tasks, the HTTP server.
Start ==
    /\ phase = "constructed"
    /\ phase' = "running"
    /\ monPc' = "ready"
    /\ hbPc' = "ready"
    /\ UNCHANGED <<nodeVars, monSleep, tick, ledgerLeader, ledgerTxs, response>>
    /\ UNCHANGED offNodeVars

\* A variant that cancels the monitor task only.
CleanupMonitorOnly ==
    /\ phase = "running"
    /\ phase' = "stopped"
    /\ monPc' = IF monPc \in {"ready", "sleeping"} THEN "cancelled" ELSE monPc
    /\ monSleep' = 0
    /\ UNCHANGED <<nodeVars, hbPc, tick, ledgerLeader, ledgerTxs, response>>
    /\ UNCHANGED offNodeVars

\* cleanup(): both tasks are cancelled; each is at a sleep or not yet run.
Cleanup ==
    /\ phase = "running"
    /\ phase' = "stopped"
    /\ monPc' = IF monPc \in {"ready", "sleeping"} THEN "cancelled" ELSE monPc
    /\ hbPc' = IF hbPc \in {"ready", "sleeping"} THEN "cancelled" ELSE hbPc
    /\ monSleep' = 0
    /\ UNCHANGED <<nodeVars, tick, ledgerLeader, ledgerTxs, response>>
    /\ UNCHANGED offNodeVars

\* One iteration of monitor_leader_health: check_leader_status(), then
\* sleep(10); an exception out of check_leader_status is caught and followed
\* by sleep(5).
MonitorLeaderHealth ==
    /\ monPc = "ready"
    /\ \E q \in CallOutcomes :
       \E ai \in ProbeInputs(q, CallOutcomes) :
       \E local \in HttpInputs(q, ai),
          health \in ProbeInputs(q, HealthOutcomes),
          vo \in ProbeInputs(q, SendOutcomes) :
          LET r == CheckLeaderStatus(q, ai, local, health, vo)
          IN  /\ is_leader' = r.is_leader
              /\ tick' = r.tick
              /\ ledgerTxs' = ledgerTxs \o r.tick.sent
              /\ monPc' = MonitorIteration(r.tick).pc
              /\ monSleep' = MonitorIteration(r.tick).sleep
    /\ UNCHANGED <<counter_value, operation_log, last_leader_heartbeat, phase, hbPc,
                   ledgerLeader, response>>
    /\ UNCHANGED offNodeVars

\* The monitor task's sleep ends.
MonitorWake ==
    /\ monPc = "sleeping"
    /\ monPc' = "ready"
    /\ monSleep' = 0
    /\ UNCHANGED <<nodeVars, phase, hbPc, tick, ledgerLeader, ledgerTxs, response>>
    /\ UNCHANGED offNodeVars

\* A variant without the `if self.is_leader` test.
LeaderHeartbeatUnconditional ==
    /\ hbPc = "ready"
    /\ \E t \in Timestamps : last_leader_heartbeat' = t
    /\ hbPc' = "sleeping"
    /\ UNCHANGED <<counter_value, operation_log, is_leader, phase, monPc, monSleep,
                   tick, ledgerLeader, ledgerTxs, response>>
    /\ UNCHANGED offNodeVars

\* One iteration of leader_heartbeat, then sleep(30).
LeaderHeartbeat ==
    /\ hbPc = "ready"
    /\ \E t \in Timestamps :
          last_leader_heartbeat' = IF is_leader THEN t ELSE last_leader_heartbeat
    /\ hbPc' = "sleeping"
    /\ UNCHANGED <<counter_value, operation_log, is_leader, phase, monPc, monSleep,
                   tick, ledgerLeader, ledgerTxs, response>>
    /\ UNCHANGED offNodeVars

\* The heartbeat task's sleep ends.
HeartbeatWake ==
    /\ hbPc = "sleeping"
    /\ hbPc' = "ready"
    /\ UNCHANGED <<nodeVars, phase, monPc, monSleep, tick, ledgerLeader,
                   ledgerTxs, response>>
    /\ UNCHANGED offNodeVars

\* submit_counter_attestation(value): the transactions it sends.  Signing the
\* message (`sig`) may fail; the contract call is then built with
\* AttestationArgsPassed arguments for a function of AttestationAbiInputs
\* inputs, which web3 rejects before anything is sent.  Every exception is
\* logged and swallowed.
SubmitCounterAttestation(value, sig, send) ==
    IF sig = "fail" THEN <<>>
    ELSE IF AttestationArgsPassed # AttestationAbiInputs THEN <<>>
    ELSE IF send = "fail" THEN <<>>
    ELSE <<[fn |-> "submitCounterAttestation", target |-> HostAddress,
            noConfidence |-> FALSE]>>

\* A variant that builds the log entry before the counter is incremented.
OperationBeforeIncrement(new_value) ==
    [operation |-> "increment", new_value |-> new_value - 1, leader |-> HostAddress]

\* The entry increment_counter appends to operation_log (its 'timestamp', a
\* time.time() reading that nothing reads back, is left out).
Operation(new_value) ==
    [operation |-> "increment", new_value |-> new_value, leader |-> HostAddress]

\* A variant without the leadership gate.
IncrementCounterUngated ==
    /\ phase = "running"
    /\ counter_value < MaxOps
    /\ counter_value' = counter_value + 1
    /\ operation_log' = Append(operation_log, Operation(counter_value + 1))
    /\ response' = [NoResponse EXCEPT !.op = "increment", !.status = 200,
                    !.new_value = counter_value + 1,
                    !.operation_id = Len(operation_log) + 1]
    /\ UNCHANGED <<is_leader, last_leader_heartbeat, phase, taskVars, tick,
                   ledgerLeader, ledgerTxs>>
    /\ UNCHANGED offNodeVars

\* A variant of POST /increment that undoes the increment and answers 500
\* when the attestation was not submitted.
IncrementCounterRollsBack ==
    /\ phase = "running"
    /\ IF ~is_leader
       THEN /\ response' = [NoResponse EXCEPT !.op = "increment", !.status = 403]
            /\ UNCHANGED <<counter_value, operation_log, ledgerTxs>>
       ELSE /\ counter_value < MaxOps
            /\ \E sig \in CallOutcomes,
                  send \in SendOutcomes :
                  LET txs == SubmitCounterAttestation(counter_value + 1, sig, send)
                  IN  IF txs = <<>>
                      THEN /\ response' = [NoResponse EXCEPT !.op = "increment",
                                                             !.status = 500]
                           /\ UNCHANGED <<counter_value, operation_log, ledgerTxs>>
                      ELSE /\ counter_value' = counter_value + 1
                           /\ operation_log' = Append(operation_log,
                                                      Operation(counter_value + 1))
                           /\ ledgerTxs' = ledgerTxs \o txs
                           /\ response' = [NoResponse EXCEPT !.op = "increment",
                                                             !.status = 200,
                                                             !.new_value = counter_value + 1,
                                                             !.operation_id =
                                                                 Len(operation_log) + 1]
    /\ UNCHANGED <<is_leader, last_leader_heartbeat, phase, taskVars, tick,
                   ledgerLeader>>
    /\ UNCHANGED offNodeVars

\* POST /increment
IncrementCounter ==
    /\ phase = "running"
    /\ IF ~is_leader
       THEN /\ response' = [NoResponse EXCEPT !.op = "increment", !.status = 403]
            /\ UNCHANGED <<counter_value, operation_log, ledgerTxs>>
       ELSE /\ counter_value < MaxOps
            /\ counter_value' = counter_value + 1
            /\ operation_log' = Append(operation_log, Operation(counter_value + 1))
            /\ \E sig \in CallOutcomes,
                  send \in SendOutcomes :
                  ledgerTxs' = ledgerTxs \o SubmitCounterAttestation(counter_value + 1, sig, send)
            /\ response' = [NoResponse EXCEPT !.op = "increment", !.status = 200,
                            !.new_value = counter_value + 1,
                            !.operation_id = Len(operation_log) + 1]
    /\ UNCHANGED <<is_leader, last_leader_heartbeat, phase, taskVars, tick,
                   ledgerLeader>>
    /\ UNCHANGED offNodeVars

\* GET /counter: no ledger call; the body carries is_leader.
GetCounter ==
    /\ phase = "running"
    /\ response' = [NoResponse EXCEPT !.op = "get_counter", !.status = 200,
                                       !.is_leader = is_leader]
    /\ UNCHANGED <<nodeVars, phase, taskVars, tick, ledgerLeader, ledgerTxs>>
    /\ UNCHANGED offNodeVars

\* GET /log: no ledger call.
GetLog ==
    /\ phase = "running"
    /\ response' = [NoResponse EXCEPT !.op = "get_log", !.status = 200]
    /\ UNCHANGED <<nodeVars, phase, taskVars, tick, ledgerLeader, ledgerTxs>>
    /\ UNCHANGED offNodeVars

\* A variant of GET /status that refreshes the flag from its own query.
GetStatusRefreshesFlag ==
    /\ phase = "running"
    /\ \E q \in CallOutcomes :
          IF q = "fail"
          THEN /\ response' = [NoResponse EXCEPT !.op = "get_status", !.status = 500]
               /\ UNCHANGED is_leader
          ELSE /\ is_leader' = (ledgerLeader = HostAddress)
               /\ response' = [NoResponse EXCEPT !.op = "get_status", !.status = 200,
                                                  !.is_leader = is_leader',
                                                  !.current_leader = ledgerLeader]
    /\ UNCHANGED <<counter_value, operation_log, last_leader_heartbeat, phase,
                   taskVars, tick, ledgerLeader, ledgerTxs>>
    /\ UNCHANGED offNodeVars

\* A variant of GET /status that drops the leader flag when its query fails.
GetStatusFailureClearsFlag ==
    /\ phase = "running"
    /\ \E q \in CallOutcomes :
          IF q = "fail"
          THEN /\ response' = [NoResponse EXCEPT !.op = "get_status", !.status = 500]
               /\ is_leader' = FALSE
          ELSE /\ response' = [NoResponse EXCEPT !.op = "get_status", !.status = 200,
                                                  !.is_leader = is_leader,
                                                  !.current_leader = ledgerLeader]
               /\ UNCHANGED is_leader
    /\ UNCHANGED <<counter_value, operation_log, last_leader_heartbeat, phase,
                   taskVars, tick, ledgerLeader, ledgerTxs>>
    /\ UNCHANGED offNodeVars

\* GET /status: three synchronous ledger reads (totalActiveNodes,
\* requiredVotes, currentLeader), then the body is built from the object's
\* fields; an exception of any read becomes a 500.  The body's is_leader is
\* the stored flag, its current_leader the ledger's answer of this request.
GetStatus ==
    /\ phase = "running"
    /\ \E q \in CallOutcomes :
          response' = IF q = "fail"
                      THEN [NoResponse EXCEPT !.op = "get_status", !.status = 500]
                      ELSE [NoResponse EXCEPT !.op = "get_status", !.status = 200,
                                              !.is_leader = is_leader,
                                              !.current_leader = ledgerLeader]
    /\ UNCHANGED <<nodeVars, phase, taskVars, tick, ledgerLeader, ledgerTxs>>
    /\ UNCHANGED offNodeVars

\* GET /members: one ledger read (getActiveInstances); an exception becomes a 500.
GetMembers ==
    /\ phase = "running"
    /\ \E q \in CallOutcomes :
          response' = [NoResponse EXCEPT !.op = "get_members",
                                         !.status = IF q = "fail" THEN 500 ELSE 200]
    /\ UNCHANGED <<nodeVars, phase, taskVars, tick, ledgerLeader, ledgerTxs>>
    /\ UNCHANGED offNodeVars

\* GET /health: no ledger call; the body's timestamp is the current time.
HealthCheck ==
    /\ phase = "running"
    /\ response' = [NoResponse EXCEPT !.op = "health_check", !.status = 200]
    /\ UNCHANGED <<nodeVars, phase, taskVars, tick, ledgerLeader, ledgerTxs>>
    /\ UNCHANGED offNodeVars

\* The ledger's election names another leader (ledger-internal).
LedgerElects ==
    /\ \E a \in LedgerAddresses \ {ledgerLeader} : ledgerLeader' = a
    /\ UNCHANGED <<nodeVars, phase, taskVars, tick, ledgerTxs, response>>
    /\ UNCHANGED offNodeVars

Next ==
    \/ Start
    \/ Cleanup
    \/ MonitorLeaderHealth
    \/ MonitorWake
    \/ LeaderHeartbeat
    \/ HeartbeatWake
    \/ IncrementCounter
    \/ LedgerElects

Spec == Init /\ [][Next]_vars

\* The event loop runs a task that is ready and fires a timer that is due.
FairSpec ==
    /\ Spec
    /\ WF_vars(MonitorLeaderHealth)
    /\ WF_vars(MonitorWake)

\* The node from the call of its constructor on, over every configuration.
BootInit ==
    /\ counter_value = 0
    /\ operation_log = <<>>
    /\ is_leader = FALSE
    /\ last_leader_heartbeat = 0
    /\ phase = "unconstructed"
    /\ monPc = "none"
    /\ monSleep = 0
    /\ hbPc = "none"
    /\ tick = NoTick
    /\ ledgerLeader \in LedgerAddresses
    /\ ledgerTxs = <<>>
    /\ response = NoResponse
    /\ pv = NoProofRun
    /\ sdk = NewSdk
    /\ boot \in Configs
    /\ mint = NoMint
    /\ peerMon = NoPeerMonitor
    /\ peer = NewPeer
    /\ reg = NoRegistration
    /\ wait = NoWait

BootNext ==
    \/ Construct
    \/ Next

BootSpec == BootInit /\ [][BootNext]_vars

\* The node together with its read-only endpoints, which write nothing but
\* the response they return.
ApiNext ==
    \/ Next
    \/ GetCounter
    \/ GetLog
    \/ GetStatus
    \/ GetMembers
    \/ HealthCheck

ApiSpec == Init /\ [][ApiNext]_vars

\* A proof from its generation to its verification; the node stands still.
ProofInit ==
    /\ Init
    /\ ledgerLeader = ZeroAddress

ProofNext ==
    \/ GenerateProofCall
    \/ AlterSignatureByte
    \/ PresentOtherPurpose
    \/ VerifyProof

ProofSpec == ProofInit /\ [][ProofNext]_vars

\* Calls of register() on one DStackP2PSDK object; the node stands still.
SdkNext == Register

SdkSpec == ProofInit /\ [][SdkNext]_vars

\* The FastAPI server from its startup on; the counter node stands still.
FastapiNext ==
    \/ Lifespan
    \/ MintNft
    \/ PostRegister
    \/ PostRegisterInstanceOrPeer
    \/ ListPeers
    \/ InstanceInfo
    \/ ServerHealthCheck
    \/ LedgerMintsForOwner
    \/ LedgerPeersChange

FastapiSpec == ProofInit /\ [][FastapiNext]_vars

\* One monitor_peers task and the ledger's peer list.
PeerMonitorNext ==
    \/ MonitorPeers
    \/ LedgerPeersChange

PeerMonitorSpec == ProofInit /\ [][PeerMonitorNext]_vars

\* Two nodes of the cluster against one ledger.
ClusterNext ==
    \/ Next
    \/ PeerCheckLeaderStatus
    \/ PeerIncrementCounter

ClusterSpec == Init /\ [][ClusterNext]_vars

\* Calls of register_instance against a ledger whose records change.
RegisterInstanceNext ==
    \/ RegisterInstance
    \/ LedgerSetsToken
    \/ LedgerDeactivatesInstance

RegisterInstanceSpec == ProofInit /\ [][RegisterInstanceNext]_vars

\* The readiness wait loops; each sleep of a loop ends, so a loop that has
\* an iteration to run runs it.
WaitNext ==
    \/ WaitStart
    \/ WaitStep

WaitSpec == ProofInit /\ [][WaitNext]_vars

WaitFairSpec == WaitSpec /\ WF_vars(WaitStep)

TypeOK ==
    /\ counter_value \in 0..MaxOps
    /\ Len(operation_log) <= MaxOps
    /\ is_leader \in BOOLEAN
    /\ last_leader_heartbeat \in 0..MaxTime
    /\ phase \in {"unconstructed", "failed", "constructed", "running", "stopped"}
    /\ boot.raised \in ConstructorOutcomes \cup {"pending"}
    /\ mint.submitted \in 0..mint.calls
    /\ peerMon.last_peers \in PeerLists
    /\ Len(peerMon.callbacks) <= peerMon.polls
    /\ peer.counter_value \in 0..MaxOps
    /\ reg.token_id \in TokenIds \cup {NoTokenId}
    /\ Len(reg.sent) <= reg.calls
    /\ monPc \in {"none", "ready", "sleeping", "crashed", "cancelled"}
    /\ hbPc \in {"none", "ready", "sleeping", "crashed", "cancelled"}
    /\ monSleep \in {0, ErrorBackoff, MonitorPeriod}
    /\ ledgerLeader \in LedgerAddresses
    /\ Len(ledgerTxs) <= MaxLedgerTxs
    /\ response.status \in {0, 200, 403, 500}
    /\ pv.stage \in {"idle", "failed", "generated", "verified"}
    /\ pv.root \in Roots
    /\ sdk.registered \in BOOLEAN
    /\ sdk.call.ret \in {"none", "True", "False"}

\* ------------------------------------------------------------------ claims
\* A step that is one monitoring tick (one call of check_leader_status).
TickStep == monPc = "ready" /\ monPc' \in {"sleeping", "crashed"}

\* The latest tick asked the ledger, and the ledger named a peer.
TickNamedPeer ==
    /\ tick.ran
    /\ tick.queryOk
    /\ tick.leader # HostAddress
    /\ tick.leader # ZeroAddress

\* C1: after a tick whose currentLeader() query succeeded, and until the
\* next tick, is_leader is true exactly when the returned address is this
\* node's host address.
C1_LeaderIffLedgerNamesSelf ==
    (tick.ran /\ tick.queryOk) => (is_leader <=> tick.leader = HostAddress)

C1_Witness ==
    /\ tick.ran /\ tick.queryOk
    /\ tick.leader = HostAddress
    /\ is_leader
    /\ monPc = "sleeping"

\* C2: in a tick where the ledger names a peer and the probe reports it
\* unresponsive, the node submits castVote(leader, true) exactly once and
\* never castVote(leader, false); the ledger receives that one transaction,
\* or none when the submission itself failed.
C2_OneNoConfidenceVote ==
    (TickNamedPeer /\ tick.probe = "unresponsive") =>
        /\ tick.probes = 1
        /\ tick.attempts = <<CastVote(tick.leader, TRUE)>>
        /\ \/ tick.sent = tick.attempts
           \/ tick.sent = <<>> /\ "vote" \in tick.errors

C2_Witness ==
    /\ TickNamedPeer
    /\ tick.probe = "unresponsive"
    /\ tick.sent = <<CastVote(tick.leader, TRUE)>>
    /\ ledgerTxs # <<>>

\* C3 (as claimed): in a tick where the ledger names a peer whose health
\* endpoint answers with success, exactly one castVote(leader, false) is
\* submitted and no no-confidence vote.
C3_AsClaimed ==
    (TickNamedPeer /\ tick.leaderHealthy) =>
        tick.attempts = <<CastVote(tick.leader, FALSE)>>

\* C4: in a tick where currentLeader() returns this node's own address there
\* is no probe and no castVote submission.
C4_SelfLeaderNoProbeNoVote ==
    (tick.ran /\ tick.queryOk /\ tick.leader = HostAddress) =>
        /\ tick.probes = 0
        /\ tick.httpGets = 0
        /\ tick.attempts = <<>>
        /\ tick.sent = <<>>

C4_Witness ==
    /\ tick.ran /\ tick.queryOk
    /\ tick.leader = HostAddress
    /\ tick.attempts = <<>>
    /\ ledgerLeader = HostAddress

\* C5: a tick where currentLeader() returns the zero address leaves the node
\* Follower, probes nothing and submits no castVote.
C5_ZeroLeaderFollowerNoProbe ==
    (tick.ran /\ tick.queryOk /\ tick.leader = ZeroAddress) =>
        /\ ~is_leader
        /\ tick.probes = 0
        /\ tick.httpGets = 0
        /\ tick.attempts = <<>>
        /\ tick.sent = <<>>

\* The node was Leader (it accepted an increment) before the zero-address tick.
C5_Witness ==
    /\ tick.ran /\ tick.queryOk
    /\ tick.leader = ZeroAddress
    /\ counter_value > 0
    /\ ~is_leader

\* C6: no failure of a tick ends the monitoring task: the task never
\* crashes, no exception leaves check_leader_status, and after a tick that
\* met a failure the task wakes up and performs a tick again, unless it is
\* cancelled.
C6_MonitorSurvivesFailures ==
    /\ [](monPc # "crashed" /\ ~tick.raised)
    /\ (monPc = "sleeping" /\ tick.errors # {}) ~> (monPc = "ready" \/ phase = "stopped")
    /\ (monPc = "ready") ~> (monPc = "sleeping" \/ phase = "stopped")

C6_Witness ==
    /\ monPc = "sleeping"
    /\ tick.errors = {"currentLeader"}
    /\ ledgerTxs # <<>>

\* C7 (as claimed): a tick in which currentLeader() or getActiveInstances()
\* failed submits no castVote and leaves is_leader as it was.
C7_AsClaimed ==
    [][(TickStep /\ tick'.errors \cap {"currentLeader", "getActiveInstances"} # {}) =>
          /\ tick'.attempts = <<>>
          /\ ledgerTxs' = ledgerTxs
          /\ is_leader' = is_leader]_vars

\* C8: a tick submits at most one castVote, whatever the outcome of the
\* submission; and a tick that finds the same peer as leader and the same
\* probe result as the tick before submits the same vote as that tick did.
C8_NoRetryThenRevote ==
    [][TickStep =>
          /\ Len(tick'.attempts) <= 1
          /\ Len(tick'.sent) <= Len(tick'.attempts)
          /\ ledgerTxs' = ledgerTxs \o tick'.sent
          /\ (/\ tick.ran /\ tick.queryOk /\ tick'.queryOk
              /\ tick'.leader = tick.leader
              /\ tick.leader \notin {HostAddress, ZeroAddress}
              /\ tick'.probe = tick.probe)
             => (Len(tick'.attempts) = 1 /\ tick'.attempts = tick.attempts)]_vars

\* A submission failed and was not repeated, in a tick after one whose same
\* vote reached the ledger.
C8_Witness ==
    /\ TickNamedPeer
    /\ "vote" \in tick.errors
    /\ Len(tick.attempts) = 1
    /\ tick.sent = <<>>
    /\ ledgerTxs # <<>>
    /\ ledgerTxs[Len(ledgerTxs)] = tick.attempts[1]

\* A step that is one iteration of leader_heartbeat.
HeartbeatStep == hbPc = "ready" /\ hbPc' = "sleeping"

\* C9: a heartbeat iteration changes last_leader_heartbeat only when
\* is_leader is true, changes nothing of the node when it is false, sends
\* nothing to the ledger and never changes is_leader, counter_value or
\* operation_log.
C9_HeartbeatFrame ==
    [][HeartbeatStep =>
          /\ UNCHANGED <<is_leader, counter_value, operation_log, ledgerTxs,
                         ledgerLeader, tick, response, phase, monPc, monSleep>>
          /\ (~is_leader => last_leader_heartbeat' = last_leader_heartbeat)]_vars

C9_Witness ==
    /\ hbPc = "sleeping"
    /\ is_leader
    /\ last_leader_heartbeat = MaxTime

\* C10: an increment request handled while is_leader is false answers 403
\* and leaves counter_value and operation_log as they were; counter_value
\* and operation_log change only in an increment request handled while
\* is_leader is true, which answers 200.
C10_WritesOnlyUnderLeadership ==
    [][/\ (IncrementCounter /\ ~is_leader) =>
             /\ response'.op = "increment" /\ response'.status = 403
             /\ UNCHANGED <<counter_value, operation_log>>
       /\ (counter_value' # counter_value \/ operation_log' # operation_log) =>
             /\ is_leader
             /\ counter_value' = counter_value + 1
             /\ response'.op = "increment" /\ response'.status = 200
             /\ response'.new_value = counter_value']_vars

\* The node accepted an increment, lost leadership and rejected the next.
C10_Witness ==
    /\ counter_value > 0
    /\ ~is_leader
    /\ response.op = "increment"
    /\ response.status = 403

\* ----------------------------------------------------- identity proof claims
\* The proof is as the generator returned it and the trust anchor is the
\* root that signed it, in either spelling.
ValidProofRightRoot ==
    /\ pv.stage = "verified"
    /\ pv.alter = "none"
    /\ Lower(pv.root) = Lower(ChecksumAddress(KmsRootKey))

AnchorSigned == Lower(pv.root) = Lower(ChecksumAddress(pv.proof.kms_signature.signer))

\* C12: a proof is accepted only if the address recovered from its
\* kmsSignature is the trust anchor's root: whatever was done to the proof, no
\* verification (the verifier, debug_signature_verification, either preimage
\* of test_signature_formats) accepts it against an address other than the
\* signing root, so a proof accepted against the right root is rejected against
\* every other address.
C12_AcceptOnlyTheSigningRoot ==
    pv.stage = "verified" =>
        /\ pv.out.verify = "accept" => AnchorSigned
        /\ pv.out.debug = "true" => AnchorSigned
        /\ pv.out.formats.kms_current => AnchorSigned
        /\ pv.out.formats.kms_working => AnchorSigned

\* a proof as generated, checked against another deployment's root and rejected
C12_Witness ==
    /\ pv.stage = "verified"
    /\ pv.alter = "none"
    /\ pv.generated = RegisterPurpose
    /\ pv.root = ChecksumAddress(DeployedKmsKey)
    /\ pv.out.verify = "RootMismatch"
    /\ pv.out.formats.returned
    /\ ~pv.out.formats.kms_current
    /\ pv.out.debug = "false"

\* C13 (as claimed): after one byte of appSignature or of kmsSignature of a
\* proof that verifies is altered, every verification returns false: none
\* still accepts and none raises.
C13_AsClaimed ==
    (/\ pv.stage = "verified"
     /\ pv.alter \in {"app_signature", "kms_signature"}
     /\ AnchorSigned)
    => /\ pv.out.verify # "accept"
       /\ pv.out.debug = "false"
       /\ ~pv.out.formats.kms_current
       /\ ~pv.out.formats.kms_working

ProofAppId == FromHex(Replace0x(pv.proof.app_id))

\* C15: for every application identifier of at most 32 bytes, the bytes32
\* value register() sends is exactly 32 bytes long, begins with the
\* identifier's bytes and is zero from there on (padding on the right), and it
\* is the same value in the generator's preimage, in register() and in the
\* test script's reconstruction.
C15_AppIdRightPadded ==
    (pv.stage = "verified" /\ Len(ProofAppId) <= Bytes32Len) =>
        /\ Len(pv.out.app_id_bytes32) = Bytes32Len
        /\ SubSeq(pv.out.app_id_bytes32, 1, Len(ProofAppId)) = ProofAppId
        /\ \A i \in (Len(ProofAppId) + 1)..Bytes32Len : pv.out.app_id_bytes32[i] = 0
        /\ pv.out.app_id_bytes32 = pv.proof.kms_signature.hash.of.app_id
        /\ pv.out.app_id_bytes32 = TestAppIdBytes32(pv.proof.app_id)

\* a 20-byte identifier written with "0x": bytes 1..20 kept, 21..32 zero
C15_Witness ==
    /\ pv.stage = "verified"
    /\ pv.proof.app_id.prefix0x
    /\ Len(ProofAppId) = Bytes20Len
    /\ pv.out.app_id_bytes32[1] = 161
    /\ pv.out.app_id_bytes32[Bytes20Len] = 180
    /\ pv.out.app_id_bytes32[Bytes20Len + 1] = 0
    /\ pv.out.app_id_bytes32[Bytes32Len] = 0

\* C16 (as claimed): verification never raises past its boundary: for every
\* proof, one whose appSignature or kmsSignature cannot be recovered
\* included, it ends with a result and not with an exception.
C16_AsClaimed ==
    pv.stage = "verified" =>
        /\ pv.out.debug \in {"true", "false"}
        /\ pv.out.verify \in {"accept", "AppSignatureInvalid", "KmsSignatureInvalid",
                              "RootMismatch"}

\* ------------------------------------------------------------ register() claims
\* the latest register() call ended because key derivation or proof
\* generation failed
GenerationFailed(s) == s.call.generation \in KeyServiceOutcomes \ {"ok"}

\* C17: when key derivation or proof generation fails the generator returns
\* no proof, and a register() call that meets the failure submits no ledger
\* transaction, returns False and leaves `registered` as it was.
C17_FailedGenerationRegistersNothing ==
    [][GenerationFailed(sdk') =>
          /\ sdk'.call.txs = <<>>
          /\ sdk'.call.ret = "False"
          /\ sdk'.registered = sdk.registered
          /\ \A app_id \in AppIds, prefixed \in BOOLEAN, ks \in KeyServiceOutcomes \ {"ok"} :
                GenerateProof(RegisterKeyPath, RegisterPurpose, app_id, prefixed, ks).proof
                    = NoProof]_vars

\* an object registered by an earlier call whose latest call met a signing failure
C17_Witness ==
    /\ sdk.registered
    /\ sdk.call.generation = "SigningFailed"
    /\ sdk.call.ret = "False"
    /\ sdk.call.txs = <<>>

\* ------------------------------------------------------------ LeaderState claims
\* C18 (as claimed): is_leader and last_leader_heartbeat change only in a
\* monitoring tick; no handler and no other task writes either.
C18_AsClaimed ==
    [][(is_leader' # is_leader \/ last_leader_heartbeat' # last_leader_heartbeat)
          => TickStep]_vars

\* C18 (amended): is_leader changes only in a monitoring tick, and
\* last_leader_heartbeat only in an iteration of the heartbeat task that
\* finds is_leader set; no request handler changes either.
C18_OneWriterPerField ==
    [][/\ is_leader' # is_leader => TickStep
       /\ last_leader_heartbeat' # last_leader_heartbeat => (HeartbeatStep /\ is_leader)]_vars

\* both fields written, then GET /status served
C18_Witness ==
    /\ is_leader
    /\ last_leader_heartbeat > 0
    /\ tick.ran
    /\ response.op = "get_status"
    /\ response.status = 200

\* C19 (as claimed): a reader sees one consistent LeaderState: in a
\* GET /status body the leader flag and the leader address belong to the same
\* update, so the flag is set exactly when the address is the node's own.
C19_AsClaimed ==
    (response.op = "get_status" /\ response.status = 200) =>
        (response.is_leader <=> response.current_leader = HostAddress)

\* ------------------------------------------------------------ shutdown claims
\* C20: cleanup() cancels both periodic tasks, and once it has run there is
\* no further monitoring tick, probe, castVote submission or heartbeat update:
\* neither task is left runnable or sleeping, and from then on the tick record,
\* the transactions sent, the leader flag and the heartbeat time stay as they are.
C20_NothingAfterCleanup ==
    [][/\ phase' = "stopped" =>
             /\ monPc' \notin {"ready", "sleeping"}
             /\ hbPc' \notin {"ready", "sleeping"}
       /\ phase = "stopped" =>
             /\ ~TickStep
             /\ ~HeartbeatStep
             /\ UNCHANGED <<tick, ledgerTxs, is_leader, last_leader_heartbeat,
                            monPc, hbPc>>]_vars

\* a node stopped after it had voted and, as leader, recorded a heartbeat
C20_Witness ==
    /\ phase = "stopped"
    /\ monPc = "cancelled"
    /\ hbPc = "cancelled"
    /\ tick.ran
    /\ Len(tick.attempts) > 0
    /\ last_leader_heartbeat > 0

\* ------------------------------------------------------------ request handler claims
\* a step in which a handler returns a response other than the latest one
Responds(op, status) ==
    /\ response' # response
    /\ response'.op = op
    /\ response'.status = status

\* C21: when a ledger query fails while GET /status or GET /members is
\* served, the handler returns an explicit error (HTTP 500) and leaves
\* is_leader, last_leader_heartbeat, counter_value and operation_log as they
\* were; the leader flag stays readable: a GET /counter answers 200 with the
\* stored flag, whatever was answered before.
C21_FailedQueryAnswers500 ==
    [][/\ (Responds("get_status", 500) \/ Responds("get_members", 500))
             => UNCHANGED <<is_leader, last_leader_heartbeat, counter_value, operation_log>>
       /\ (response'.op \in {"get_status", "get_members"} /\ response' # response)
             => response'.status \in {200, 500}
       /\ (response'.op = "get_counter" /\ response' # response)
             => /\ response'.status = 200
                /\ response'.is_leader = is_leader
                /\ UNCHANGED <<is_leader, last_leader_heartbeat>>
       /\ (phase = "running" /\ response.status = 500) => ENABLED GetCounter]_vars

\* GET /status answered 500 on a leader that has counted and recorded a heartbeat
C21_Witness ==
    /\ response.op = "get_status"
    /\ response.status = 500
    /\ phase = "running"
    /\ is_leader
    /\ last_leader_heartbeat > 0
    /\ counter_value > 0

\* ------------------------------------------------------------ construction claims
\* the configuration lacks the host key, the contract address, or a key
\* service that can be reached over a socket
ConfigurationError(c) ==
    \/ c.host_private_key = "missing"
    \/ c.contract_address = "missing"
    \/ (c.dstack_socket = "missing" /\ ~c.simulatorSocket)
    \/ c.keyService = "unreachable"

C23_AsClaimed ==
    (/\ phase # "unconstructed"
     /\ boot.host_private_key = "missing"
     /\ boot.contract_address = "given"
     /\ boot.dstack_socket = "given"
     /\ boot.keyService = "ok")
        => (phase # "failed" /\ boot.raised = "none")

\* ------------------------------------------------------------ registration claims
\* the registerPeer transaction of the latest register() call, if it sent one
PeerTxOutcome(s) ==
    IF Len(s.call.txs) = 2 THEN s.call.txs[2].outcome ELSE "not sent"

\* C24 (as claimed): register() returns True, and sets `registered`, only if
\* the registerPeer transaction was mined with success status; whenever the
\* ledger rejects or reverts it, register() returns False and `registered`
\* is not set.
C24_AsClaimed ==
    [][/\ sdk'.call.ret = "True" => PeerTxOutcome(sdk') = "mined"
       /\ (sdk'.registered /\ ~sdk.registered) => PeerTxOutcome(sdk') = "mined"
       /\ PeerTxOutcome(sdk') \in {"reverted", "rejected"}
             => (sdk'.call.ret = "False" /\ sdk'.registered = sdk.registered)]_vars

\* ------------------------------------------------------------ minting claims
\* C25 (as claimed): mint_nft_if_needed mints only when needed: called for an
\* owner that already holds an NFT it submits no mint transaction and
\* returns True, so that startup followed by POST /mint-nft or POST /register
\* submits at most one mint transaction that is mined for the same owner.
C25_AsClaimed ==
    [][(mint'.calls # mint.calls /\ mint.holdsNft) =>
          /\ mint'.submitted = mint.submitted
          /\ mint'.ret = "True"]_vars

\* ------------------------------------------------------------ peer monitoring claims
\* C26 (as claimed): across any sequence of polls, including polls whose
\* ledger query fails, monitor_peers calls the callback exactly when the
\* ledger's current peer list differs from the list passed to the previous
\* successful callback, and never with a list that the ledger did not report.
C26_AsClaimed ==
    [][peerMon'.polls # peerMon.polls =>
          LET called == Len(peerMon'.callbacks) > Len(peerMon.callbacks)
              made   == peerMon'.callbacks[Len(peerMon'.callbacks)]
          IN  /\ called => (made.reported /\ made.arg = peerMon.ledger)
              /\ called => peerMon.ledger # peerMon.last_peers
              /\ (peerMon'.query = "ok" /\ peerMon.ledger # peerMon.last_peers) => called]_vars

\* ------------------------------------------------------------ cluster claims
\* C28 (as claimed): in a cluster of several nodes polling the same ledger,
\* under every interleaving of monitoring ticks, ledger leader changes and
\* ledger-query failures, at most one node at a time has is_leader true, and
\* so at most one node at a time accepts counter increments.
C28_AsClaimed == ~(is_leader /\ peer.is_leader)

\* ------------------------------------------------------------ probe claims
\* C27 (as claimed): ping_leader(leader) returns true if and only if the
\* health endpoint of the node whose address is the claimed leader answers
\* with a success status within the timeout; a reachable, healthy leader is
\* never reported unresponsive, and no other endpoint decides the result.
C27_AsClaimed ==
    (tick.ran /\ tick.probes = 1) =>
        (tick.probe = "responsive" <=> tick.leaderHealthy)

\* ------------------------------------------------------------ local state claims
\* C29: no failure of a ledger query, a probe, a vote submission or an
\* attestation submission decreases counter_value or removes or alters an
\* entry of operation_log: every step keeps the log as a prefix and the
\* counter at least as large, a tick leaves both untouched, and an increment
\* served by the leader increments the counter, appends the operation and
\* answers 200 with the new value, whether or not its attestation reached the
\* ledger.
C29_FailuresKeepLocalState ==
    [][/\ counter_value' >= counter_value
       /\ Len(operation_log') >= Len(operation_log)
       /\ SubSeq(operation_log', 1, Len(operation_log)) = operation_log
       /\ TickStep => UNCHANGED <<counter_value, operation_log>>
       /\ (is_leader /\ response' # response /\ response'.op = "increment") =>
             /\ counter_value' = counter_value + 1
             /\ operation_log' = Append(operation_log, Operation(counter_value'))
             /\ response'.status = 200
             /\ response'.new_value = counter_value'
             /\ response'.operation_id = Len(operation_log')]_vars

\* two increments answered with success although no attestation ever reached
\* the ledger, followed by a tick that met a failure
C29_Witness ==
    /\ counter_value = MaxOps
    /\ Len(operation_log) = MaxOps
    /\ response.op = "increment"
    /\ response.status = 200
    /\ \A i \in 1..Len(ledgerTxs) : ledgerTxs[i].fn # "submitCounterAttestation"
    /\ tick.errors # {}

\* ------------------------------------------------------------ message format claims
\* C30 (as claimed): every place that recomputes the derived-key message,
\* the registration path of register() and the verification scripts, hashes
\* for the same purpose and derived public key exactly the generator's byte
\* string: the purpose, ":", and the lowercase hex of the compressed derived
\* public key with no prefix, without padding or signed-message prefix.
C30_AsClaimed ==
    pv.stage = "verified" =>
        LET derivedPublicKey == Sec1(pv.proof.derived_private_key)
            generated == Keccak(DerivedKeyMessage(pv.proof.purpose, derivedPublicKey))
        IN  /\ pv.proof.purpose = RegisterPurpose
                   => AppMessageHash(derivedPublicKey) = generated
            /\ DebugDerivedKeyHash(pv.proof) = generated

\* C31 (as claimed): the appId sent to the ledger in the registration call
\* is the byte string of the KMS preimage the scripts verify kmsSignature
\* against, the identifier padded to 32 bytes; a proof is treated as
\* verified exactly when kmsSignature recovers the root over that preimage,
\* never because it does so over a 20-byte identifier.
C31_AsClaimed ==
    (pv.stage = "verified" /\ pv.out.formats.returned) =>
        /\ TestAppIdBytes20(pv.proof.app_id) = pv.out.formats.app_id_bytes32
        /\ pv.out.formats.kms_working = pv.out.formats.kms_current
        /\ pv.out.formats.kms_working <=> (pv.out.verify = "accept")

\* C32: in a register() call the registerInstance transaction is attempted
\* before the registerPeer transaction, each at most once; a failure of
\* registerInstance does not end the call: registerPeer is attempted
\* whenever registerInstance was, and whether it returned alone decides the
\* return value.
C32_InstanceThenPeer ==
    LET txs == sdk.call.txs
    IN  /\ Len(txs) \in {0, 2}
        /\ Len(txs) = 2 => (txs[1].fn = "registerInstance" /\ txs[2].fn = "registerPeer")
        /\ sdk.call.ret = "True" <=>
              (Len(txs) = 2 /\ SendTransactionReturns(txs[2].outcome))
        /\ sdk.call.ret = "False" <=>
              (sdk.call # NoCall /\ (Len(txs) = 0 \/ ~SendTransactionReturns(txs[2].outcome)))

\* a call whose registerInstance was rejected and whose registerPeer was mined
C32_Witness ==
    /\ Len(sdk.call.txs) = 2
    /\ sdk.call.txs[1].outcome = "rejected"
    /\ sdk.call.txs[2].outcome = "mined"
    /\ sdk.call.ret = "True"

\* ------------------------------------------------------------ register_instance claims
\* C33: a register_instance() call submits a registerInstance transaction
\* only if the host wallet holds an NFT (token id not 0) and the instance
\* is not active on the ledger; without an NFT it submits nothing and
\* returns needs_nft, for an active instance it submits nothing and returns
\* ready; after sending it reports ready only for a receipt with success
\* status; and an exception yields an error result, never anything else.
C33_RegistersOnlyWhenNeeded ==
    [][reg'.calls # reg.calls =>
          /\ reg'.result \in {"needs_nft", "ready", "error"}
          /\ reg'.sent # reg.sent =>
                /\ reg.walletTokenId # 0
                /\ ~reg.active
                /\ Len(reg'.sent) = Len(reg.sent) + 1
                /\ reg'.result = "ready" <=> reg'.sent[Len(reg'.sent)] = "mined"
          /\ reg.walletTokenId = 0 =>
                (reg'.sent = reg.sent /\ reg'.result \in {"needs_nft", "error"})
          /\ (reg.walletTokenId # 0 /\ reg.active) =>
                (reg'.sent = reg.sent /\ reg'.result \in {"ready", "error"})
          /\ reg'.result = "needs_nft" => (reg.walletTokenId = 0 /\ reg'.token_id = 0)
          /\ reg'.result = "ready" => reg'.token_id = reg.walletTokenId]_vars

\* a reverted registration answered with an error, then a mined one answered
\* with ready, then a call that found the instance active and sent nothing
C33_Witness ==
    /\ reg.sent = <<"reverted", "mined">>
    /\ reg.calls = MaxRegisterCalls
    /\ reg.result = "ready"
    /\ reg.active

\* ------------------------------------------------------------ FastAPI server claims
\* a step in which the FastAPI server answers a request of one of `ops`
Answers(ops) == mint'.resp # mint.resp /\ mint'.resp.op \in ops

\* the handler made no ledger or key-service call and changed nothing
NothingTouched ==
    /\ ~mint'.resp.external
    /\ sdk' = sdk
    /\ mint'.calls = mint.calls
    /\ mint'.submitted = mint.submitted

PostOps == {"mint-nft", "register", "register-instance", "register-peer"}

\* a startup that found PRIVATE_KEY unset submitted no mint and no registration
ReadOnlyStartup ==
    (mint.app = "down" /\ mint'.app # "down" /\ mint'.env = "unset") =>
        (sdk' = sdk /\ mint'.calls = mint.calls /\ mint'.submitted = mint.submitted)

\* C34 (as claimed): without a PRIVATE_KEY startup submits no mint or
\* registration transaction, and POST /mint-nft, /register,
\* /register-instance and /register-peer are rejected with HTTP 400 before
\* any ledger or key-service call is made.
C34_AsClaimed ==
    [][/\ ReadOnlyStartup
       /\ (mint.env = "unset" /\ Answers(PostOps)) =>
             (mint'.resp.status = 400 /\ NothingTouched)]_vars

\* C34 (amended): without a PRIVATE_KEY startup submits no mint or
\* registration transaction, and the four POST endpoints are rejected before
\* any ledger or key-service call is made: with HTTP 400 when the SDK object
\* exists, with HTTP 503 when its construction failed.
C34_ReadOnlyWithoutPrivateKey ==
    [][/\ ReadOnlyStartup
       /\ (mint.env = "unset" /\ Answers(PostOps)) =>
             /\ mint'.resp.status = (IF mint.app = "up" THEN 400 ELSE 503)
             /\ NothingTouched]_vars

\* POST /register refused with 400 on a server that started read-only, after
\* POST /mint-nft was refused too
C34_Witness ==
    /\ mint.app = "up"
    /\ mint.env = "unset"
    /\ mint.resp.op = "register"
    /\ mint.resp.status = 400
    /\ mint.calls = 0
    /\ sdk = NewSdk

\* C35: FastAPI startup always reaches the serving state, whether the SDK
\* construction, the wait for the agent, minting or registration fails; when
\* the construction failed (sdk is None) GET /peers, GET /info, POST
\* /mint-nft and POST /register answer 503 without touching the ledger,
\* while GET /health still answers healthy.
C35_StartupAlwaysServes ==
    [][/\ mint.app = "down" => ENABLED Lifespan
       /\ (mint.env = "unknown" /\ mint'.env # "unknown") => mint'.app \in {"no_sdk", "up"}
       /\ mint.app # "down" => mint'.app = mint.app
       /\ (mint.app = "no_sdk" /\ Answers({"peers", "info", "mint-nft", "register"})) =>
             (mint'.resp.status = 503 /\ NothingTouched)
       /\ Answers({"health"}) => mint'.resp.status = 200]_vars

\* a server without its SDK object, with PRIVATE_KEY set, that refused GET /peers
C35_Witness ==
    /\ mint.app = "no_sdk"
    /\ mint.env = "set"
    /\ mint.resp.op = "peers"
    /\ mint.resp.status = 503

\* C36 (as claimed): GET /peers answers a failed ledger peer query with
\* HTTP 500; an empty list with count 0 is returned only when the ledger
\* reported no peers.
C36_AsClaimed ==
    (mint.resp.op = "peers" /\ mint.resp.status # 503) =>
        /\ mint.resp.query = "fail" => mint.resp.status = 500
        /\ (mint.resp.status = 200 /\ mint.resp.count = 0) => mint.resp.query = "ok"

\* ------------------------------------------------------------ readiness wait claims
WaitOver == wait.status \in {"ready", "raised", "returned", "False"}

\* a loop that is over runs no further iteration, and a loop becomes ready
\* only in an iteration that probed
WaitStopsAtSuccess ==
    /\ WaitOver => wait' = wait
    /\ (wait.status = "waiting" /\ wait'.status = "ready") => wait'.probes = wait.probes + 1

WaitBounded ==
    /\ wait.probes <= MaxRetries
    /\ wait.attempt < MaxRetries
    /\ (WaitOver /\ wait.status # "ready") =>
          /\ wait.attempt = MaxRetries - 1
          /\ wait.status = Exhaustion(wait.site)

LogMirrorsCounter ==
    /\ counter_value = Len(operation_log)
    /\ \A k \in 1..Len(operation_log) : operation_log[k].new_value = k

\* a step in which POST /increment was accepted
IncrementAccepted ==
    /\ response' # response
    /\ response'.op = "increment"
    /\ response'.status = 200

CounterSteps ==
    /\ counter_value' >= counter_value
    /\ Len(operation_log') >= Len(operation_log)
    /\ (counter_value' # counter_value \/ operation_log' # operation_log) => IncrementAccepted
    /\ IncrementAccepted =>
          /\ counter_value' = counter_value + 1
          /\ operation_log' = Append(operation_log, operation_log'[Len(operation_log')])
          /\ response'.new_value = counter_value'
          /\ response'.operation_id = counter_value'

\* C38: after any sequence of increment requests, ticks and failures,
\* counter_value equals the number of entries of operation_log, the k-th
\* entry records new_value k, and counter_value never decreases; each
\* accepted increment raises both by exactly one and returns operation_id
\* equal to the new value.
C38_LogMirrorsCounter == [](LogMirrorsCounter) /\ [][CounterSteps]_vars

\* two increments accepted, the second after a failed tick left the node Leader
C38_Witness ==
    /\ counter_value = 2
    /\ Len(operation_log) = 2
    /\ response.op = "increment"
    /\ response.operation_id = 2
    /\ tick.ran
    /\ ~tick.queryOk

\* ------------------------------------------------------------ leader flag claims
\* a tick whose currentLeader() query succeeded
SuccessfulTick == TickStep /\ tick'.queryOk

\* GET /status answered with the leader its own currentLeader() query returned
StatusQueryAnswered ==
    /\ response' # response
    /\ response'.op = "get_status"
    /\ response'.status = 200

StartsAsFollower == ~is_leader /\ last_leader_heartbeat = 0

\* the flag follows the successful queries of the monitoring tick, and
\* nothing else
FlagFollowsTicks ==
    /\ SuccessfulTick => is_leader' = (tick'.leader = HostAddress)
    /\ ~SuccessfulTick => is_leader' = is_leader

RegisterPeerCompleted(call) ==
    /\ call.txs # <<>>
    /\ call.txs[Len(call.txs)].fn = "registerPeer"
    /\ SendTransactionReturns(call.txs[Len(call.txs)].outcome)

RegisteredIsMonotone ==
    /\ sdk' # sdk => sdk'.call.ret \in {"True", "False"}
    /\ sdk'.registered # sdk.registered =>
          /\ sdk'.registered
          /\ sdk'.call.ret = "True"
          /\ RegisterPeerCompleted(sdk'.call)
    /\ (sdk' # sdk /\ sdk'.call.ret = "False") => sdk'.registered = sdk.registered

\* get_peers() called by GET /peers gave a list, empty when the query failed
GetPeersGivesAList ==
    (mint.app = "up" /\ Answers({"peers"})) =>
        /\ mint'.resp.status = 200
        /\ mint'.resp.count = IF mint'.resp.query = "ok" THEN Len(peerMon.ledger) ELSE 0

\* C40: DStackP2PSDK.register() and get_peers() never propagate an
\* exception (every failure yields False or an empty list), and `registered`
\* is monotone: it starts False, becomes True only inside a register() call
\* whose registerPeer step completed, and is never reset to False by a later
\* failed register() call.
C40_SdkNeverRaisesRegisteredMonotone ==
    /\ ~sdk.registered
    /\ [][RegisteredIsMonotone /\ GetPeersGivesAList]_vars

\* registered, kept through a later register() call that failed, and a
\* get_peers() whose query failed
C40_Witness ==
    /\ sdk.registered
    /\ sdk.call.ret = "False"
    /\ mint.resp.op = "peers"
    /\ mint.resp.status = 200
    /\ mint.resp.query = "fail"
    /\ peerMon.ledger # <<>>

=============================================================================
